---- MODULE Spec2Model ----
(***************************************************************************)
(* State-machine model of the authorization-code client (SPAClient): the   *)
(* token acquisition operations, the credential cache lookup and the       *)
(* temporary request state.  Asynchronous operations are split at their    *)
(* await points (authority discovery, token endpoint round trip).          *)
(***************************************************************************)
EXTENDS Integers, Sequences, FiniteSets, TLC

\* ---------------------------------------------------------------- bounds
MaxTime == 1
MaxIssued == 1
MaxEmitters == 2

\* ------------------------------------------------------- configuration
clientId == "cid"
tokenRenewalOffsetSeconds == 1
DefaultAuthority == "authA"
NoAccount == ""

Procs == {1, 2}
Homes == {"h1", "h2"}
RequestAuthorities == {"", "authB"}
Resources == {"", "res"}
States == {"s1", "s2"}
ExpiresIn == {0, 2}
PriorTokens == 1..7      \* tokens issued before this client was constructed

\* scope arrays a caller may pass, and scope strings the server may return
RequestScopeArrays == {<<"read">>, <<"Read", "write">>, <<"cid">>}
ServerScopeStrings == {<<"read">>, <<"read", "write">>}

\* ------------------------------------------------------------ ScopeSet
Lower(s) == IF s = "Read" THEN "read" ELSE s

\* new ScopeSet(inputScopes, clientId, scopesRequired): the de-duplicated,
\* lower-cased scopes; the client id is added when scopes are not required
ScopeSet(inputScopes, scopesRequired) ==
    LET given == {Lower(inputScopes[i]) : i \in 1..Len(inputScopes)}
    IN IF scopesRequired THEN given ELSE given \cup {clientId}

fromString(scopeString) == ScopeSet(scopeString, TRUE)

appendScopes(scopeset, newScopes) ==
    scopeset \cup {Lower(newScopes[i]) : i \in 1..Len(newScopes)}

containsScopeSet(cachedScopes, requestScopes) ==
    /\ Cardinality(cachedScopes) >= Cardinality(requestScopes)
    /\ \A s \in requestScopes : s \in cachedScopes

isLoginScopeSet(scopeset) == clientId \in scopeset

\* ------------------------------------------------------ record shapes
NoParams == [present |-> FALSE, authority |-> "", resource |-> "",
             codeVerifier |-> ""]
NoItem == [clientId |-> "", authority |-> "", scopes |-> <<>>,
           homeAccountIdentifier |-> "", resource |-> "",
           accessToken |-> 0, refreshToken |-> 0, idToken |-> "",
           expiresOnSec |-> 0]
NoRequest == [present |-> FALSE, scopes |-> <<>>, authority |-> "",
              resource |-> "", account |-> NoAccount, forceRefresh |-> FALSE,
              code |-> "", userRequestState |-> "", isLoginCall |-> FALSE,
              prompt |-> "", extraScopesToConsent |-> <<>>]
NoResult == [kind |-> "none", error |-> "", accessToken |-> 0,
             refreshToken |-> 0, expiresOn |-> 0, account |-> NoAccount,
             scopes |-> {}, fromCache |-> FALSE]
EmptyTemp == [params |-> NoParams, state |-> "", authorities |-> {}]
NoUrl == [state |-> "", codeChallenge |-> "", codeChallengeMethod |-> ""]
IdleCall == [pc |-> "idle", op |-> "", req |-> NoRequest, passed |-> NoRequest,
             account |-> NoAccount,
             authority |-> "", tokenAuthority |-> "", tokenResource |-> "",
             item |-> NoItem, looked |-> FALSE, seen |-> {}, seenNow |-> 0,
             answer |-> "",
             discovery |-> 0, token |-> 0, sentRefreshToken |-> 0,
             raised |-> "", cleaned |-> FALSE, result |-> NoResult,
             readRequest |-> FALSE, storeReads |-> 0, verifier |-> "",
             url |-> NoUrl]

\* nothing has been logged out yet
NoLogout == [happened |-> FALSE, entries |-> {}, home |-> NoAccount,
             authority |-> ""]

\* the node key-value store: one map per section of InMemoryCache
EmptyMap == [k \in {} |-> ""]
EmptyInMemoryCache == [accounts |-> EmptyMap, accessTokens |-> EmptyMap,
                       refreshTokens |-> EmptyMap, appMetadata |-> EmptyMap,
                       idTokens |-> EmptyMap]
NoStorageCall == [op |-> "", key |-> "", type |-> "", inMemory |-> FALSE,
                  value |-> "", returned |-> "", emits |-> 0]

\* the node client application: the configured authority, the default
\* authority instance (created: how many were made; url; discovered) and
\* whether this.cacheInterface has been assigned
NewApp(configured) ==
    [configAuthority |-> configured, created |-> 0, url |-> "", discovered |-> FALSE,
     cacheInterface |-> FALSE]
IdleNodeCall == [pc |-> "idle", op |-> "", authority |-> "", instance |-> 0,
                 url |-> "", completeAtStart |-> FALSE, discoveries |-> 0,
                 clientRequest |-> FALSE, error |-> "", returned |-> FALSE,
                 accounts |-> {}]

VARIABLES
    now,                \* TimeUtils.nowSeconds()
    redirectUri,        \* config.authOptions.redirectUri: "" when not configured,
                        \* a string, or a function (one of UriFunctions)
    account,            \* this.account
    defaultDiscovered,  \* this.defaultAuthority.discoveryComplete()
    cache,              \* access token cache items in cacheStorage
    persisted,          \* PersistentCacheKeys.ID_TOKEN / CLIENT_INFO in cacheStorage
    temp,               \* temporary cache items in cacheStorage
    issued,             \* tokens issued by the token endpoint so far
    calls,              \* the operations in flight, one per caller
    atLogout,           \* history: what the last logout found in the cache
    inMemoryCache,      \* Storage.inMemoryCache of the node key-value store
    storageCall,        \* the last operation of the node key-value store
    changeEmitters,     \* Storage.changeEmitters: how often each was invoked
    nodeApp,            \* ClientApplication: config.auth.authority and _authority
    nodeCalls           \* the operations of the ClientApplication in flight

storageVars == <<inMemoryCache, storageCall, changeEmitters>>

appVars == <<nodeApp, nodeCalls>>

vars == <<now, redirectUri, account, defaultDiscovered, cache, persisted,
          temp, issued, calls, atLogout, inMemoryCache, storageCall,
          changeEmitters, nodeApp, nodeCalls>>


\* ------------------------------------------------------------ helpers
Complete(c, res) == [c EXCEPT !.pc = "done", !.result = res]

ErrorResult(e) == [NoResult EXCEPT !.kind = "error", !.error = e]

\* this.account after getAccount(): the cached account, else the account
\* derived from the persisted id token and client info, else null
createAccount(idToken, clientInfo) == clientInfo

\* variant: the persisted client info alone is enough to derive an account
getAccount_clientInfoOnly(acc, store) ==
    IF acc # NoAccount THEN acc
    ELSE IF store.clientInfo # ""
         THEN createAccount(store.idToken, store.clientInfo)
         ELSE NoAccount

\* variant: only the account cached on the instance is returned
getAccount_cachedOnly(acc, store) == acc

getAccount(acc, store) ==
    IF acc # NoAccount THEN acc
    ELSE IF store.idToken # "" /\ store.clientInfo # ""
         THEN createAccount(store.idToken, store.clientInfo)
         ELSE NoAccount

\* the number of cacheStorage.getItem calls made by getAccount (lines 499-500)
getAccountReads(acc) == IF acc # NoAccount THEN 0 ELSE 2

\* configured values of redirectUri that are functions, named by their text
UriFunctions == {"() => ''", "() => 'https://app/redirect'"}

\* this.config.authOptions.redirectUri(): the string the function returns
callUriFunction(f) == IF f = "() => ''" THEN "" ELSE "https://app/redirect"

\* the values of config.authOptions.redirectUri
RedirectUriConfigs == {"", "https://app/redirect", "() => ''"}

\* getRedirectUri() (lines 457-467): a falsy configuration value throws the
\* redirect-URI-empty error; a function is called and its result returned as
\* it is, the empty string included; a string is returned
getRedirectUri(config) ==
    IF config = ""
    THEN [value |-> "", thrown |-> TRUE]
    ELSE IF config \in UriFunctions
    THEN [value |-> callUriFunction(config), thrown |-> FALSE]
    ELSE [value |-> config, thrown |-> FALSE]

\* cacheManager.resetTempCacheItems(state)
resetTempCacheItems(t, state) ==
    [params |-> NoParams, state |-> "",
     authorities |-> IF state = "" THEN {}
                     ELSE {a \in t.authorities : a.state # state}]

\* cacheManager.getAllAccessTokens(clientId, authority, resource, homeAccountIdentifier)
getAllAccessTokens(c, cid, authorityUri, resourceId, homeAccountIdentifier) ==
    {e \in c : /\ e.clientId = cid
               /\ e.authority = authorityUri
               /\ e.resource = resourceId
               /\ e.homeAccountIdentifier = homeAccountIdentifier}

\* variant: with several matching items the first one is taken
getCachedTokens_takesFirst(c, requestScopes, authorityUri, resourceId, homeAccountIdentifier) ==
    LET tokenCacheItems ==
            getAllAccessTokens(c, clientId, authorityUri, resourceId, homeAccountIdentifier)
        filteredCacheItems ==
            {e \in tokenCacheItems : containsScopeSet(fromString(e.scopes), requestScopes)}
    IN IF filteredCacheItems = {}
       THEN [error |-> "NoTokensFound", item |-> NoItem]
       ELSE [error |-> "", item |-> CHOOSE e \in filteredCacheItems : TRUE]

\* variant: the items are not filtered by their scopes
getCachedTokens_noScopeFilter(c, requestScopes, authorityUri, resourceId, homeAccountIdentifier) ==
    LET tokenCacheItems ==
            getAllAccessTokens(c, clientId, authorityUri, resourceId, homeAccountIdentifier)
    IN IF tokenCacheItems = {}
       THEN [error |-> "NoTokensFound", item |-> NoItem]
       ELSE IF Cardinality(tokenCacheItems) > 1
       THEN [error |-> "MultipleMatchingTokensInCache", item |-> NoItem]
       ELSE [error |-> "", item |-> CHOOSE e \in tokenCacheItems : TRUE]

\* variant: the items of every account are looked at
getCachedTokens_anyAccount(c, requestScopes, authorityUri, resourceId, homeAccountIdentifier) ==
    LET tokenCacheItems ==
            {e \in c : /\ e.clientId = clientId
                       /\ e.authority = authorityUri
                       /\ e.resource = resourceId}
        filteredCacheItems ==
            {e \in tokenCacheItems : containsScopeSet(fromString(e.scopes), requestScopes)}
    IN IF tokenCacheItems = {}
       THEN [error |-> "NoTokensFound", item |-> NoItem]
       ELSE IF Cardinality(filteredCacheItems) > 1
       THEN [error |-> "MultipleMatchingTokensInCache", item |-> NoItem]
       ELSE IF Cardinality(filteredCacheItems) = 1
       THEN [error |-> "", item |-> CHOOSE e \in filteredCacheItems : TRUE]
       ELSE [error |-> "NoTokensFound", item |-> NoItem]

\* getCachedTokens: the single matching item, or the error thrown
getCachedTokens(c, requestScopes, authorityUri, resourceId, homeAccountIdentifier) ==
    LET tokenCacheItems ==
            getAllAccessTokens(c, clientId, authorityUri, resourceId, homeAccountIdentifier)
        filteredCacheItems ==
            {e \in tokenCacheItems : containsScopeSet(fromString(e.scopes), requestScopes)}
    IN IF tokenCacheItems = {}
       THEN [error |-> "NoTokensFound", item |-> NoItem]
       ELSE IF Cardinality(filteredCacheItems) > 1
       THEN [error |-> "MultipleMatchingTokensInCache", item |-> NoItem]
       ELSE IF Cardinality(filteredCacheItems) = 1
       THEN [error |-> "", item |-> CHOOSE e \in filteredCacheItems : TRUE]
       ELSE [error |-> "NoTokensFound", item |-> NoItem]

\* variant: the comparison with the renewal bound is inverted
cachedTokenUsable_inverted(forceRefresh, expirationSec, nowSeconds) ==
    /\ ~forceRefresh
    /\ expirationSec # 0
    /\ expirationSec < nowSeconds + tokenRenewalOffsetSeconds

\* variant: the renewal offset is left out, and the bound itself counts as valid
cachedTokenUsable_noOffset(forceRefresh, expirationSec, nowSeconds) ==
    /\ ~forceRefresh
    /\ expirationSec # 0
    /\ expirationSec > nowSeconds

\* the test of line 240: the cached token is returned without a refresh
cachedTokenUsable(forceRefresh, expirationSec, nowSeconds) ==
    /\ ~forceRefresh
    /\ expirationSec # 0
    /\ expirationSec > nowSeconds + tokenRenewalOffsetSeconds

\* the token response built from the cache item (lines 241-258)
cachedTokenResponse(item, acct) ==
    [kind |-> "ok", error |-> "", accessToken |-> item.accessToken,
     refreshToken |-> item.refreshToken,
     expiresOn |-> item.expiresOnSec * 1000, account |-> acct,
     scopes |-> fromString(item.scopes), fromCache |-> TRUE]

\* responseHandler.validateServerAuthorizationTokenResponse(body)
validateServerAuthorizationTokenResponse(body) ==
    IF body.error THEN "ServerError" ELSE ""

SameKey(e, f) ==
    /\ e.clientId = f.clientId
    /\ e.authority = f.authority
    /\ e.scopes = f.scopes
    /\ e.homeAccountIdentifier = f.homeAccountIdentifier
    /\ e.resource = f.resource

\* responseHandler.createTokenResponse(body, authority, resource, state)
createTokenResponse(c, store, body, authority, resource, t, n) ==
    IF body.malformed
    THEN [error |-> "InvalidResponse", cache |-> c, persisted |-> store,
          response |-> NoResult]
    ELSE LET entry == [clientId |-> clientId, authority |-> authority,
                       scopes |-> body.scope,
                       homeAccountIdentifier |-> body.home,
                       resource |-> resource,
                       accessToken |-> n, refreshToken |-> n,
                       idToken |-> body.home,
                       expiresOnSec |-> t + body.expires_in]
         IN [error |-> "",
             cache |-> {e \in c : ~SameKey(e, entry)} \cup {entry},
             persisted |-> IF body.home # NoAccount
                           THEN [idToken |-> body.home, clientInfo |-> body.home]
                           ELSE store,
             response |-> [kind |-> "ok", error |-> "", accessToken |-> n,
                           refreshToken |-> n,
                           expiresOn |-> (t + body.expires_in) * 1000,
                           account |-> body.home,
                           scopes |-> fromString(body.scope),
                           fromCache |-> FALSE]]

\* variant: the response is normalized without being validated first
getTokenResponse_noValidation(c, store, resp, authority, resource, t, n) ==
    IF resp.kind = "neterr"
    THEN [error |-> "NetworkError", cache |-> c, persisted |-> store,
          response |-> NoResult]
    ELSE createTokenResponse(c, store, resp, authority, resource, t, n)

\* getTokenResponse after the token endpoint has answered (lines 412-420)
getTokenResponse(c, store, resp, authority, resource, t, n) ==
    IF resp.kind = "neterr"
    THEN [error |-> "NetworkError", cache |-> c, persisted |-> store,
          response |-> NoResult]
    ELSE IF validateServerAuthorizationTokenResponse(resp) # ""
    THEN [error |-> validateServerAuthorizationTokenResponse(resp),
          cache |-> c, persisted |-> store, response |-> NoResult]
    ELSE createTokenResponse(c, store, resp, authority, resource, t, n)

\* variant: the current account is left as it was
setAccount_keepsCurrent(current, tokenResponse) == current

\* line 419: this.account = tokenResponse.account
setAccount(current, tokenResponse) == tokenResponse.account

\* what the token endpoint (or the transport) may answer
ServerResponses ==
    [kind : {"ok"}, error : BOOLEAN, malformed : BOOLEAN, home : Homes \cup {NoAccount},
     scope : ServerScopeStrings, expires_in : ExpiresIn]
    \cup {[kind |-> "neterr", error |-> FALSE, malformed |-> FALSE, home |-> NoAccount,
           scope |-> <<>>, expires_in |-> 0]}

\* what kind of answer the token request got
Answer(resp) ==
    IF resp.kind = "neterr" THEN "neterr"
    ELSE IF resp.error THEN "error" ELSE "tokens"

\* the tokens of a new response are distinct from every token issued before
NewToken(n) == Cardinality(PriorTokens) + n + 1

\* variant: the catch block throws an error of its own
Rethrow_wrapped(e) == "UnexpectedError"

\* the error re-thrown by the catch block: "throw e"
Rethrow(e) == e

\* variant: the catch block leaves the current account in place
CatchAndRethrow_keepsAccount(p, c, e, state) ==
    /\ calls' = [calls EXCEPT ![p] =
                    [c EXCEPT !.pc = "done", !.raised = e, !.cleaned = TRUE,
                              !.result = ErrorResult(Rethrow(e))]]
    /\ temp' = resetTempCacheItems(temp, state)
    /\ account' = account

\* catch (e) { resetTempCacheItems(state); this.account = null; throw e; }
CatchAndRethrow(p, c, e, state) ==
    /\ calls' = [calls EXCEPT ![p] =
                    [c EXCEPT !.pc = "done", !.raised = e, !.cleaned = TRUE,
                              !.result = ErrorResult(Rethrow(e))]]
    /\ temp' = resetTempCacheItems(temp, state)
    /\ account' = NoAccount

\* an error that leaves the operation without passing through a catch block
Propagate(p, c, e, accNow) ==
    /\ calls' = [calls EXCEPT ![p] =
                    [c EXCEPT !.pc = "done", !.raised = e,
                              !.result = ErrorResult(e)]]
    /\ temp' = temp
    /\ account' = accNow


\* variant: the endpoints are resolved again on every call
discoveryComplete_never(useDefault, discovered) == FALSE

\* acquireTokenAuthority.discoveryComplete() (lines 171, 227, 299): the
\* default authority keeps its endpoints, an authority named in the request
\* is a new instance (lines 170, 226, 298)
discoveryComplete(useDefault, discovered) == useDefault /\ discovered

\* ------------------------------------------------------- getValidToken
\* variant: a missing account is an error for every kind of scopes
loginRequired_anyScopes(requestScopes, acct) == acct = NoAccount

\* lines 219-223: an id token renewal needs an account
loginRequired(requestScopes, acct) ==
    isLoginScopeSet(requestScopes) /\ acct = NoAccount

\* variant: the request object is handed to renewToken as it was passed
renewedRequest_unchanged(request, cachedTokenItem) == request

\* line 261: request.authority = cachedTokenItem.key.authority
renewedRequest(request, cachedTokenItem) ==
    [request EXCEPT !.authority = cachedTokenItem.authority]

\* lines 235-265: look the token up, answer from the cache or start the refresh
GetValidTokenLookup(p, c, accNow) ==
    LET found == getCachedTokens(cache, ScopeSet(c.req.scopes, TRUE), c.authority,
                                 c.req.resource, c.account)
        c1 == [c EXCEPT !.looked = TRUE, !.seen = cache, !.seenNow = now,
                        !.item = found.item]
    IN IF found.error # ""
       THEN CatchAndRethrow(p, c1, found.error, "")
       ELSE IF cachedTokenUsable(c.req.forceRefresh, found.item.expiresOnSec, now)
       THEN /\ calls' = [calls EXCEPT ![p] =
                            Complete(c1, cachedTokenResponse(found.item, c.account))]
            /\ account' = accNow
            /\ temp' = temp
       ELSE IF getRedirectUri(redirectUri).thrown
       THEN Propagate(p, [c1 EXCEPT !.req = renewedRequest(c.req, found.item)],
                      "RedirectUriEmpty", accNow)
       ELSE /\ calls' = [calls EXCEPT ![p] =
                            [c1 EXCEPT !.pc = "gvt_token",
                                       !.req = renewedRequest(c.req, found.item),
                                       !.tokenAuthority = found.item.authority,
                                       !.tokenResource = c.req.resource,
                                       !.sentRefreshToken = found.item.refreshToken,
                                       !.token = c.token + 1]]
            /\ account' = accNow
            /\ temp' = temp

\* lines 208-233: up to the first await
GetValidTokenStart(p, request) ==
    /\ calls[p].pc = "idle"
    /\ LET acct == IF request.account # NoAccount THEN request.account
                   ELSE getAccount(account, persisted)
           accNow == IF request.account # NoAccount THEN account ELSE acct
           useDefault == request.authority = ""
           c == [IdleCall EXCEPT !.op = "getValidToken", !.req = request,
                                 !.passed = request,
                                 !.account = acct,
                                 !.authority = IF useDefault THEN DefaultAuthority
                                               ELSE request.authority]
       IN IF ~request.present
          THEN CatchAndRethrow(p, [IdleCall EXCEPT !.op = "getValidToken"],
                               "EmptyTokenRequest", "")
          ELSE IF loginRequired(ScopeSet(request.scopes, TRUE), acct)
          THEN CatchAndRethrow(p, c, "UserLoginRequired", "")
          ELSE IF ~discoveryComplete(useDefault, defaultDiscovered)
          THEN /\ calls' = [calls EXCEPT ![p] =
                               [c EXCEPT !.pc = "gvt_disc", !.discovery = 1]]
               /\ account' = accNow
               /\ temp' = temp
          ELSE GetValidTokenLookup(p, c, accNow)
    /\ UNCHANGED <<now, redirectUri, atLogout, storageVars, appVars, defaultDiscovered, cache, persisted, issued>>

\* lines 227-233 resumed: the discovery round trip has ended
GetValidTokenDiscovered(p, ok) ==
    /\ calls[p].pc = "gvt_disc"
    /\ IF ok
       THEN /\ GetValidTokenLookup(p, calls[p], account)
            /\ defaultDiscovered' =
                   (defaultDiscovered \/ calls[p].req.authority = "")
       ELSE /\ CatchAndRethrow(p, calls[p], "EndpointDiscoveryIncomplete", "")
            /\ UNCHANGED defaultDiscovered
    /\ UNCHANGED <<now, redirectUri, atLogout, storageVars, appVars, cache, persisted, issued>>

\* renewToken / getTokenResponse resumed: the token endpoint has answered
GetValidTokenResponse(p, resp) ==
    /\ calls[p].pc = "gvt_token"
    /\ LET c == [calls[p] EXCEPT !.answer = Answer(resp)]
           out == getTokenResponse(cache, persisted, resp, c.tokenAuthority,
                                   c.tokenResource, now, NewToken(issued))
       IN IF out.error # ""
          THEN /\ Propagate(p, c, out.error, account)
               /\ UNCHANGED <<cache, persisted, issued>>
          ELSE /\ issued < MaxIssued
               /\ calls' = [calls EXCEPT ![p] = Complete(c, out.response)]
               /\ account' = setAccount(account, out.response)
               /\ cache' = out.cache
               /\ persisted' = out.persisted
               /\ issued' = issued + 1
               /\ temp' = temp
    /\ UNCHANGED <<now, redirectUri, atLogout, storageVars, appVars, defaultDiscovered>>


\* -------------------------------------------------------- acquireToken
CodeResponses ==
    {[NoRequest EXCEPT !.present = TRUE, !.code = c, !.userRequestState = s] :
        c \in {"", "code"}, s \in States}
    \cup {NoRequest}

cachedAuthority(t, state) ==
    IF \E a \in t.authorities : a.state = state
    THEN (CHOOSE a \in t.authorities : a.state = state).authority
    ELSE ""

\* variant: the stored request is read and left in the cache
getCachedRequest_keepsItem(t, state) ==
    IF ~t.params.present
    THEN [error |-> "TokenRequestCacheError", request |-> NoParams, temp |-> t]
    ELSE [error |-> "",
          request |-> [t.params EXCEPT !.authority =
                          IF @ = "" THEN cachedAuthority(t, state) ELSE @],
          temp |-> t]

\* getCachedRequest(state): the stored request, read once and removed
getCachedRequest(t, state) ==
    IF ~t.params.present
    THEN [error |-> "TokenRequestCacheError", request |-> NoParams, temp |-> t]
    ELSE [error |-> "",
          request |-> [t.params EXCEPT !.authority =
                          IF @ = "" THEN cachedAuthority(t, state) ELSE @],
          temp |-> [t EXCEPT !.params = NoParams]]

\* the state value handed to resetTempCacheItems by the catch block of acquireToken
CatchState(codeResponse) ==
    IF codeResponse.present THEN codeResponse.userRequestState ELSE ""

\* lines 179-193: build the token request and send it
AcquireTokenSend(p, c, t) ==
    IF getRedirectUri(redirectUri).thrown
    THEN CatchAndRethrow(p, c, "RedirectUriEmpty", CatchState(c.req))
    ELSE /\ calls' = [calls EXCEPT ![p] =
                         [c EXCEPT !.pc = "at_token", !.token = c.token + 1]]
         /\ temp' = t
         /\ account' = account

\* variant: only a missing code response counts, an empty code does not
codeMissing_onlyAbsent(codeResponse) == ~codeResponse.present

\* line 162: no code response, or one without a code
codeMissing(codeResponse) ==
    ~codeResponse.present \/ codeResponse.code = ""

\* lines 159-177: up to the first await
AcquireTokenStart(p, codeResponse) ==
    /\ calls[p].pc = "idle"
    /\ LET c0 == [IdleCall EXCEPT !.op = "acquireToken", !.req = codeResponse]
           got == getCachedRequest(temp, codeResponse.userRequestState)
           useDefault == got.request.authority = ""
           c1 == [c0 EXCEPT !.readRequest = TRUE]
           c == [c1 EXCEPT !.tokenAuthority = got.request.authority,
                           !.tokenResource = got.request.resource,
                           !.authority = IF useDefault THEN DefaultAuthority
                                         ELSE got.request.authority]
       IN IF codeMissing(codeResponse)
          THEN CatchAndRethrow(p, c0, "TokenRequestCannotBeMade", CatchState(codeResponse))
          ELSE IF got.error # ""
          THEN CatchAndRethrow(p, c1, got.error, CatchState(codeResponse))
          ELSE IF ~discoveryComplete(useDefault, defaultDiscovered)
          THEN /\ calls' = [calls EXCEPT ![p] =
                               [c EXCEPT !.pc = "at_disc", !.discovery = 1]]
               /\ temp' = got.temp
               /\ account' = account
          ELSE AcquireTokenSend(p, c, got.temp)
    /\ UNCHANGED <<now, redirectUri, atLogout, storageVars, appVars, defaultDiscovered, cache, persisted, issued>>

\* lines 171-177 resumed: the discovery round trip has ended
AcquireTokenDiscovered(p, ok) ==
    /\ calls[p].pc = "at_disc"
    /\ IF ok
       THEN /\ AcquireTokenSend(p, calls[p], temp)
            /\ defaultDiscovered' =
                   (defaultDiscovered \/ calls[p].tokenAuthority = "")
       ELSE /\ CatchAndRethrow(p, calls[p], "EndpointDiscoveryIncomplete",
                               CatchState(calls[p].req))
            /\ UNCHANGED defaultDiscovered
    /\ UNCHANGED <<now, redirectUri, atLogout, storageVars, appVars, cache, persisted, issued>>

\* getTokenResponse resumed: the token endpoint has answered
AcquireTokenResponse(p, resp) ==
    /\ calls[p].pc = "at_token"
    /\ LET c == [calls[p] EXCEPT !.answer = Answer(resp)]
           out == getTokenResponse(cache, persisted, resp, c.tokenAuthority,
                                   c.tokenResource, now, NewToken(issued))
       IN IF out.error # ""
          THEN /\ CatchAndRethrow(p, c, out.error, CatchState(c.req))
               /\ UNCHANGED <<cache, persisted, issued>>
          ELSE /\ issued < MaxIssued
               /\ calls' = [calls EXCEPT ![p] = Complete(c, out.response)]
               /\ account' = setAccount(account, out.response)
               /\ cache' = out.cache
               /\ persisted' = out.persisted
               /\ issued' = issued + 1
               /\ temp' = temp
    /\ UNCHANGED <<now, redirectUri, atLogout, storageVars, appVars, defaultDiscovered>>

\* ----------------------------------------------------------- createUrl
UrlRequests ==
    [present : {TRUE}, scopes : {<<"read">>}, authority : RequestAuthorities,
     resource : {""}, account : {NoAccount}, forceRefresh : {FALSE},
     code : {""}, userRequestState : {""}, isLoginCall : BOOLEAN,
     prompt : {"", "login", "bogus"}, extraScopesToConsent : {<<>>, <<"write">>}]
    \cup {NoRequest, [NoRequest EXCEPT !.isLoginCall = TRUE]}

validatePrompt(prompt) ==
    IF prompt \in {"login", "select_account", "consent", "none"} THEN "" ELSE "InvalidPrompt"

\* the redirect URI has to be a non-empty value
validateRedirectUri(uri) ==
    IF uri = "" THEN "RedirectUriEmpty" ELSE ""

\* createLoginUrl / createAcquireTokenUrl, lines 74-78: discovery is requested first
CreateUrlStart(p, request) ==
    /\ calls[p].pc = "idle"
    /\ calls' = [calls EXCEPT ![p] =
                    [IdleCall EXCEPT !.op = "createUrl", !.req = request,
                                     !.pc = "cu_disc", !.discovery = 1,
                                     !.authority = IF request.authority = ""
                                                   THEN DefaultAuthority
                                                   ELSE request.authority]]
    /\ UNCHANGED <<now, redirectUri, atLogout, storageVars, appVars, account, defaultDiscovered, cache, persisted,
                   temp, issued>>

\* lines 79-113: discovery ended; scopes, redirect URI, up to the PKCE await.
\* Line 99 reads the redirect URI and validates the value read: an unset
\* configuration throws in getRedirectUri, an empty value returned by a
\* configured function is rejected by the validation.
CreateUrlDiscovered(p, ok) ==
    /\ calls[p].pc = "cu_disc"
    /\ LET c == calls[p]
       IN IF ~ok
          THEN /\ calls' = [calls EXCEPT ![p] =
                               [c EXCEPT !.pc = "done",
                                         !.raised = "EndpointDiscoveryIncomplete",
                                         !.result = ErrorResult("EndpointDiscoveryIncomplete")]]
               /\ UNCHANGED defaultDiscovered
          ELSE /\ defaultDiscovered' = (defaultDiscovered \/ c.req.authority = "")
               /\ IF \/ getRedirectUri(redirectUri).thrown
                     \/ validateRedirectUri(getRedirectUri(redirectUri).value) # ""
                  THEN calls' = [calls EXCEPT ![p] =
                                    [c EXCEPT !.pc = "done",
                                              !.raised = "RedirectUriEmpty",
                                              !.result = ErrorResult("RedirectUriEmpty")]]
                  ELSE calls' = [calls EXCEPT ![p] = [c EXCEPT !.pc = "cu_pkce"]]
    /\ UNCHANGED <<now, redirectUri, atLogout, storageVars, appVars, account, cache, persisted, temp, issued>>

\* what the crypto interface may generate: PKCE codes and GUIDs
PkceVerifiers == {"v1", "v2"}
Guids == States

\* the code challenge that belongs to a verifier
codeChallengeOf(verifier) == IF verifier = "v1" THEN "c1" ELSE "c2"

\* ProtocolUtils.setRequestState(userState, randomGuid)
setRequestState(userState, randomGuid) ==
    IF userState = "" THEN randomGuid ELSE <<randomGuid, userState>>

\* variant: the extra scopes and the client id are added for every kind of call
urlScopes_alwaysAppend(request, isLoginCall) ==
    appendScopes(ScopeSet(request.scopes, FALSE), request.extraScopesToConsent)

\* lines 87-96: the scopes of the URL
urlScopes(request, isLoginCall) ==
    LET scopeset == ScopeSet(request.scopes, ~isLoginCall)
    IN IF isLoginCall
       THEN appendScopes(scopeset, request.extraScopesToConsent)
       ELSE scopeset

\* lines 113-150: PKCE codes generated; state, prompt, login hint, nonce
CreateUrlPkce(p, generatedVerifier, randomGuid) ==
    /\ calls[p].pc = "cu_pkce"
    /\ LET c == [calls[p] EXCEPT
                    !.verifier = generatedVerifier,
                    !.url = [state |-> setRequestState(calls[p].req.userRequestState,
                                                       randomGuid),
                             codeChallenge |-> codeChallengeOf(generatedVerifier),
                             codeChallengeMethod |-> "S256"]]
           scopeset == urlScopes(c.req, c.req.isLoginCall)
       IN IF c.req.prompt # "" /\ validatePrompt(c.req.prompt) # ""
          THEN calls' = [calls EXCEPT ![p] =
                            [c EXCEPT !.pc = "done", !.raised = validatePrompt(c.req.prompt),
                                      !.result = ErrorResult(validatePrompt(c.req.prompt))]]
          ELSE calls' = [calls EXCEPT ![p] =
                            Complete(c, [NoResult EXCEPT !.kind = "ok",
                                                         !.scopes = scopeset])]
    /\ UNCHANGED <<now, redirectUri, atLogout, storageVars, appVars, account, defaultDiscovered, cache, persisted,
                   temp, issued>>

\* ---------------------------------------------------------- getAccount
\* lines 493-512: synchronous, returns the account or null
GetAccount(p) ==
    /\ calls[p].pc = "idle"
    /\ LET found == getAccount(account, persisted)
       IN /\ calls' = [calls EXCEPT ![p] =
                          Complete([IdleCall EXCEPT !.op = "getAccount",
                                                    !.account = found,
                                                    !.storeReads = getAccountReads(account)],
                                   [NoResult EXCEPT !.kind = "ok", !.account = found])]
          /\ account' = found
    /\ UNCHANGED <<now, redirectUri, atLogout, storageVars, appVars, defaultDiscovered, cache,
                   persisted, temp, issued>>

\* -------------------------------------------------------------- logout
\* cacheManager.removeAllAccessTokens(clientId, authority?, resource?, homeAccountIdentifier?):
\* an argument that is not given does not restrict the entries removed
removeAllAccessTokens(c, cid, authorityUri, resourceId, homeAccountIdentifier) ==
    {e \in c : ~(/\ e.clientId = cid
                 /\ (authorityUri = "" \/ e.authority = authorityUri)
                 /\ (resourceId = "" \/ e.resource = resourceId)
                 /\ (homeAccountIdentifier = ""
                        \/ e.homeAccountIdentifier = homeAccountIdentifier))}

\* lines 282-286: the access tokens that stay after those of the current
\* account have been removed
logoutTokens(c, currentAccount, authorityUri) ==
    LET homeAccountIdentifier ==
            IF currentAccount # NoAccount THEN currentAccount ELSE ""
    IN removeAllAccessTokens(c, clientId, authorityUri, "", homeAccountIdentifier)

\* cacheStorage.clear() (line 288): a full clear, no item of the cache
\* storage stays, the access tokens of other accounts and authorities included
clearCacheStorage(c) == {}

\* variant: logout removes the pertinent access tokens and does not clear
\* the cache storage
logoutCache_tokensOnly(c, currentAccount, authorityUri) ==
    logoutTokens(c, currentAccount, authorityUri)

\* lines 284-288 of logout: the pertinent access tokens are removed, then the
\* cache storage is cleared
logoutCache(c, currentAccount, authorityUri) ==
    clearCacheStorage(logoutTokens(c, currentAccount, authorityUri))

\* lines 281-305: the cache is cleaned before the authority is resolved
LogoutStart(p, authorityUri) ==
    /\ calls[p].pc = "idle"
    /\ LET currentAccount == getAccount(account, persisted)
           useDefault == authorityUri = ""
           c == [IdleCall EXCEPT !.op = "logout",
                                 !.account = currentAccount,
                                 !.storeReads = getAccountReads(account),
                                 !.req = [NoRequest EXCEPT !.present = TRUE,
                                                           !.authority = authorityUri],
                                 !.authority = IF useDefault THEN DefaultAuthority
                                               ELSE authorityUri]
       IN /\ cache' = logoutCache(cache, currentAccount, authorityUri)
          \* cacheStorage.clear(): the persisted and the temporary items too
          /\ persisted' = [idToken |-> "", clientInfo |-> ""]
          /\ temp' = EmptyTemp
          /\ account' = NoAccount
          /\ atLogout' = [happened |-> TRUE, entries |-> cache,
                          home |-> currentAccount, authority |-> authorityUri]
          /\ IF ~discoveryComplete(useDefault, defaultDiscovered)
             THEN calls' = [calls EXCEPT ![p] =
                               [c EXCEPT !.pc = "lo_disc", !.discovery = 1]]
             ELSE calls' = [calls EXCEPT ![p] =
                               Complete(c, [NoResult EXCEPT !.kind = "ok"])]
    /\ UNCHANGED <<now, redirectUri, storageVars, appVars, defaultDiscovered, issued>>

\* variant: a failed discovery puts back what the logout had removed
LogoutDiscovered_rollsBack(p, ok) ==
    /\ calls[p].pc = "lo_disc"
    /\ LET c == calls[p]
       IN IF ok
          THEN /\ calls' = [calls EXCEPT ![p] =
                               Complete(c, [NoResult EXCEPT !.kind = "ok"])]
               /\ defaultDiscovered' = (defaultDiscovered \/ c.req.authority = "")
               /\ UNCHANGED <<account, cache>>
          ELSE /\ calls' = [calls EXCEPT ![p] =
                               [c EXCEPT !.pc = "done",
                                         !.raised = "EndpointDiscoveryIncomplete",
                                         !.result = ErrorResult("EndpointDiscoveryIncomplete")]]
               /\ account' = atLogout.home
               /\ cache' = atLogout.entries
               /\ UNCHANGED defaultDiscovered
    /\ UNCHANGED <<now, redirectUri, atLogout, storageVars, appVars, persisted,
                   temp, issued>>

\* lines 299-309 resumed: the discovery round trip has ended
LogoutDiscovered(p, ok) ==
    /\ calls[p].pc = "lo_disc"
    /\ LET c == calls[p]
       IN IF ok
          THEN /\ calls' = [calls EXCEPT ![p] =
                               Complete(c, [NoResult EXCEPT !.kind = "ok"])]
               /\ defaultDiscovered' = (defaultDiscovered \/ c.req.authority = "")
          ELSE /\ calls' = [calls EXCEPT ![p] =
                               [c EXCEPT !.pc = "done",
                                         !.raised = "EndpointDiscoveryIncomplete",
                                         !.result = ErrorResult("EndpointDiscoveryIncomplete")]]
               /\ UNCHANGED defaultDiscovered
    /\ UNCHANGED <<now, redirectUri, atLogout, storageVars, appVars, account, cache, persisted,
                   temp, issued>>

\* ------------------------------------------------------- cancelRequest
\* variant: cancelRequest removes one kind of item per call, the stored
\* request first and the state and authority items afterwards
cancelRequest_byLayer(t) ==
    IF t.params.present
    THEN [t EXCEPT !.params = NoParams]
    ELSE resetTempCacheItems(t, t.state)

\* lines 339-340: the stored state value ("" when none is stored) is read and
\* handed to resetTempCacheItems
cancelRequest(t) == resetTempCacheItems(t, t.state)

\* lines 338-341: synchronous; this.account is not touched
CancelRequest(p) ==
    /\ calls[p].pc = "idle"
    /\ temp' = cancelRequest(temp)
    /\ calls' = [calls EXCEPT ![p] =
                    Complete([IdleCall EXCEPT !.op = "cancelRequest",
                                              !.req.userRequestState = temp.state],
                             [NoResult EXCEPT !.kind = "ok"])]
    /\ UNCHANGED <<now, redirectUri, atLogout, storageVars, appVars, account, defaultDiscovered,
                   cache, persisted, issued>>

\* ------------------------------------------- node key-value store (Storage)
\* CacheSchemaType of msal-common; "" stands for a type that is not given
ACCOUNT == "Account"
CREDENTIAL == "Credential"
APP_META_DATA == "AppMetadata"

\* what the operations return besides stored values
Null == "null"
EmptyObject == "{}"

StorageValues == {"e1", "e2"}

\* CacheHelper.getCredentialType(key): the credential type named in the key
getCredentialType(key) ==
    CASE key = "h1-idtoken" -> "IdToken"
      [] key = "h1-accesstoken" -> "AccessToken"
      [] key = "h1-refreshtoken" -> "RefreshToken"
      [] OTHER -> "NotDefined"

\* cache.section[key] = value
Put(m, key, value) ==
    [k \in DOMAIN m \cup {key} |-> IF k = key THEN value ELSE m[k]]

\* delete cache.section[key]
Delete(m, key) == [k \in DOMAIN m \ {key} |-> m[k]]

\* cache.section[key] || null
Lookup(m, key) == IF key \in DOMAIN m THEN m[key] ELSE Null

\* the section of InMemoryCache selected by the two switch statements
section(key, type) ==
    CASE type = ACCOUNT -> "accounts"
      [] type = APP_META_DATA -> "appMetadata"
      [] type = CREDENTIAL /\ getCredentialType(key) = "IdToken" -> "idTokens"
      [] type = CREDENTIAL /\ getCredentialType(key) = "AccessToken" -> "accessTokens"
      [] type = CREDENTIAL /\ getCredentialType(key) = "RefreshToken" -> "refreshTokens"
      [] OTHER -> "none"

\* setItem (lines 63-115): the cache afterwards and the change events emitted
setItem(c, key, value, type, inMemory) ==
    IF ~inMemory
    THEN [cache |-> c, emits |-> 0]
    ELSE IF type \notin {ACCOUNT, CREDENTIAL, APP_META_DATA}
    THEN [cache |-> c, emits |-> 0]
    ELSE IF section(key, type) = "none"
    THEN [cache |-> c, emits |-> 2]
    ELSE [cache |-> [c EXCEPT ![section(key, type)] = Put(@, key, value)],
          emits |-> 2]

\* getItem (lines 124-171)
getItem(c, key, type, inMemory) ==
    IF ~inMemory
    THEN EmptyObject
    ELSE IF type \notin {ACCOUNT, CREDENTIAL, APP_META_DATA}
    THEN EmptyObject
    ELSE IF section(key, type) = "none"
    THEN Null
    ELSE Lookup(c[section(key, type)], key)

\* variant: the key is reported as removed and left in the cache
removeItem_keepsKey(c, key, type, inMemory) ==
    IF ~inMemory \/ section(key, type) = "none"
    THEN [cache |-> c, returned |-> "false", emits |-> 0]
    ELSE IF key \in DOMAIN c[section(key, type)]
    THEN [cache |-> c, returned |-> "true", emits |-> 2]
    ELSE [cache |-> c, returned |-> "false", emits |-> 0]

\* removeItem (lines 179-245)
removeItem(c, key, type, inMemory) ==
    IF ~inMemory \/ section(key, type) = "none"
    THEN [cache |-> c, returned |-> "false", emits |-> 0]
    ELSE IF key \in DOMAIN c[section(key, type)]
    THEN [cache |-> [c EXCEPT ![section(key, type)] = Delete(@, key)],
          returned |-> "true", emits |-> 2]
    ELSE [cache |-> c, returned |-> "false", emits |-> 0]

\* Object.keys(cache): the names of the sections
SectionNames == <<"accounts", "accessTokens", "refreshTokens", "appMetadata",
                 "idTokens">>

\* Object.keys(name) of a string: the indices of its characters
CharacterIndices(name) ==
    LET length == CASE name = "accounts" -> 8
                    [] name = "accessTokens" -> 12
                    [] name = "refreshTokens" -> 13
                    [] name = "appMetadata" -> 11
                    [] name = "idTokens" -> 8
    IN [i \in 1..length |-> ToString(i - 1)]

\* lines 295-297, the inner loop: this.removeItem(internalKey) for each
\* internal key, with no type and no inMemory flag
RECURSIVE RemoveEach(_, _, _)
RemoveEach(c, keys, i) ==
    IF i > Len(keys) THEN c
    ELSE LET removed == removeItem(c, keys[i], "", FALSE)
         IN IF removed.returned = "false"
            THEN RemoveEach(c, keys, i + 1)
            ELSE RemoveEach(removed.cache, keys, i + 1)

\* lines 294-298, the outer loop over Object.keys(cache)
RECURSIVE ClearSections(_, _, _)
ClearSections(c, names, n) ==
    IF n > Len(names) THEN c
    ELSE LET cleared == RemoveEach(c, CharacterIndices(names[n]), 1)
         IN IF cleared = c
            THEN ClearSections(c, names, n + 1)
            ELSE ClearSections(cleared, names, n + 1)

\* clear (lines 283-301)
clear(c, inMemory) ==
    IF ~inMemory
    THEN [cache |-> c, emits |-> 0]
    ELSE [cache |-> ClearSections(c, SectionNames, 1), emits |-> 1]

clientVars == <<now, redirectUri, account, defaultDiscovered, cache, persisted,
                temp, issued, calls, atLogout>>

\* registerChangeEmitter (lines 32-34): the function is pushed; each emitter
\* stands as the number of times it was invoked by the last operation
registerChangeEmitter(emitters) == Append(emitters, 0)

\* emitChange (lines 36-38): every registered function is called once
emitChange(emitters) == [i \in DOMAIN emitters |-> emitters[i] + 1]

\* the emitters after an operation that has called emitChange this often
\* (setCache once; setItem and removeItem through setCache and once more)
Emitted(emitters, emits) ==
    LET quiet == [i \in DOMAIN emitters |-> 0]
    IN IF emits = 0 THEN quiet
       ELSE IF emits = 1 THEN emitChange(quiet)
       ELSE emitChange(emitChange(quiet))

\* setCache (lines 51-54)
setCache(c, newCache) == [cache |-> newCache, emits |-> 1]

StorageRegisterChangeEmitter ==
    /\ Len(changeEmitters) < MaxEmitters
    /\ changeEmitters' = registerChangeEmitter(Emitted(changeEmitters, 0))
    /\ storageCall' = [NoStorageCall EXCEPT !.op = "registerChangeEmitter"]
    /\ UNCHANGED <<clientVars, appVars, inMemoryCache>>

\* emitChange called by the host itself (lines 36-38, a public method)
StorageEmitChange ==
    /\ changeEmitters' = Emitted(changeEmitters, 1)
    /\ storageCall' = [NoStorageCall EXCEPT !.op = "emitChange", !.emits = 1]
    /\ UNCHANGED <<clientVars, appVars, inMemoryCache>>

StorageSetCache(newCache) ==
    /\ inMemoryCache' = setCache(inMemoryCache, newCache).cache
    /\ storageCall' = [NoStorageCall EXCEPT
                          !.op = "setCache",
                          !.emits = setCache(inMemoryCache, newCache).emits]
    /\ changeEmitters' = Emitted(changeEmitters, setCache(inMemoryCache, newCache).emits)
    /\ UNCHANGED <<clientVars, appVars>>

StorageSetItem(key, value, type, inMemory) ==
    /\ inMemoryCache' = setItem(inMemoryCache, key, value, type, inMemory).cache
    /\ storageCall' = [op |-> "setItem", key |-> key, type |-> type,
                       inMemory |-> inMemory, value |-> value, returned |-> "",
                       emits |-> setItem(inMemoryCache, key, value, type, inMemory).emits]
    /\ changeEmitters' = Emitted(changeEmitters, setItem(inMemoryCache, key, value, type, inMemory).emits)
    /\ UNCHANGED <<clientVars, appVars>>

StorageGetItem(key, type, inMemory) ==
    /\ inMemoryCache' = inMemoryCache
    /\ storageCall' = [op |-> "getItem", key |-> key, type |-> type,
                       inMemory |-> inMemory, value |-> "",
                       returned |-> getItem(inMemoryCache, key, type, inMemory),
                       emits |-> 0]
    /\ changeEmitters' = Emitted(changeEmitters, 0)
    /\ UNCHANGED <<clientVars, appVars>>

StorageRemoveItem(key, type, inMemory) ==
    /\ inMemoryCache' = removeItem(inMemoryCache, key, type, inMemory).cache
    /\ storageCall' = [op |-> "removeItem", key |-> key, type |-> type,
                       inMemory |-> inMemory, value |-> "",
                       returned |-> removeItem(inMemoryCache, key, type, inMemory).returned,
                       emits |-> removeItem(inMemoryCache, key, type, inMemory).emits]
    /\ changeEmitters' = Emitted(changeEmitters, removeItem(inMemoryCache, key, type, inMemory).emits)
    /\ UNCHANGED <<clientVars, appVars>>

StorageClear(inMemory) ==
    /\ LET out == clear(inMemoryCache, inMemory)
       IN /\ inMemoryCache' = out.cache
          /\ storageCall' = [op |-> "clear", key |-> "", type |-> "",
                             inMemory |-> inMemory, value |-> "", returned |-> "",
                             emits |-> out.emits]
    /\ changeEmitters' = Emitted(changeEmitters, clear(inMemoryCache, inMemory).emits)
    /\ UNCHANGED <<clientVars, appVars>>

\* ------------------------------------ node client application (ClientApplication)
\* Constants.DEFAULT_AUTHORITY of msal-common: the common authority
DEFAULT_AUTHORITY == "common"

NodeOperations == {"getAuthCodeUrl", "acquireTokenByCode", "acquireTokenByRefreshToken"}

\* variant: the getter makes a new authority instance on every access
authorityOf_alwaysNew(app) ==
    [app EXCEPT !.created = @ + 1,
                !.url = IF app.configAuthority # "" THEN app.configAuthority
                        ELSE DEFAULT_AUTHORITY,
                !.discovered = FALSE]

\* get authority() (lines 181-192): this._authority, created on first access
\* from config.auth.authority || Constants.DEFAULT_AUTHORITY
authorityOf(app) ==
    IF app.created > 0
    THEN app
    ELSE [app EXCEPT !.created = 1,
                     !.url = IF app.configAuthority # "" THEN app.configAuthority
                             ELSE DEFAULT_AUTHORITY,
                     !.discovered = FALSE]

\* getAuthCodeUrl / acquireTokenByCode / acquireTokenByRefreshToken up to
\* their first await (lines 72, 94, 114; 123-130; 160-174): with a complete
\* default authority createAuthority returns at once, yet the awaits of lines
\* 130 and 72/94/114 yield before the client is made ("running"); otherwise
\* the call waits for resolveEndpointsAsync ("disc")
NodeCallStart(p, operation, authorityString) ==
    /\ nodeCalls[p].pc = "idle"
    /\ LET useDefault == authorityString = ""
           app == IF useDefault THEN authorityOf(nodeApp) ELSE nodeApp
           complete == useDefault /\ app.discovered
           c == [IdleNodeCall EXCEPT
                    !.op = operation,
                    !.authority = authorityString,
                    !.instance = IF useDefault THEN app.created ELSE 0,
                    !.url = IF useDefault THEN app.url ELSE authorityString,
                    !.completeAtStart = useDefault /\ nodeApp.discovered]
       IN /\ nodeApp' = app
          /\ IF complete
             THEN nodeCalls' = [nodeCalls EXCEPT ![p] = [c EXCEPT !.pc = "running"]]
             ELSE nodeCalls' = [nodeCalls EXCEPT ![p] =
                                   [c EXCEPT !.pc = "disc", !.discoveries = 1]]
    /\ UNCHANGED <<clientVars, storageVars>>

\* createAuthority resumed (lines 173-178): resolveEndpointsAsync has ended;
\* after a success the authority is complete and the call is still behind the
\* awaits of lines 130 and 72/94/114 ("running")
NodeCallDiscovered(p, ok) ==
    /\ nodeCalls[p].pc = "disc"
    /\ nodeCalls[p].op \in NodeOperations
    /\ LET c == nodeCalls[p]
       IN IF ok
          THEN /\ nodeCalls' = [nodeCalls EXCEPT ![p] = [c EXCEPT !.pc = "running"]]
               /\ nodeApp' = IF c.authority = ""
                             THEN [nodeApp EXCEPT !.discovered = TRUE]
                             ELSE nodeApp
          ELSE /\ nodeCalls' = [nodeCalls EXCEPT ![p] =
                                   [c EXCEPT !.pc = "done",
                                             !.error = "EndpointDiscoveryIncomplete"]]
               /\ nodeApp' = nodeApp
    /\ UNCHANGED <<clientVars, storageVars>>

\* the operation resumed behind its await (lines 73-78, 95-100, 115-120): the
\* client is made from the configuration and the request handed to it
NodeCallResume(p) ==
    /\ nodeCalls[p].pc = "running"
    /\ nodeCalls[p].op \in NodeOperations
    /\ nodeCalls' = [nodeCalls EXCEPT ![p] =
                        [nodeCalls[p] EXCEPT !.pc = "client", !.clientRequest = TRUE]]
    /\ UNCHANGED <<clientVars, storageVars, nodeApp>>

\* the request of the AuthorizationCodeClient or RefreshTokenClient has ended
NodeCallAnswered(p, clientError) ==
    /\ nodeCalls[p].pc = "client"
    /\ nodeCalls' = [nodeCalls EXCEPT ![p] =
                        [nodeCalls[p] EXCEPT !.pc = "done", !.error = clientError]]
    /\ UNCHANGED <<clientVars, storageVars, nodeApp>>

\* the caller has taken the result
NodeCallReturn(p) ==
    /\ nodeCalls[p].pc = "done"
    /\ nodeCalls' = [nodeCalls EXCEPT ![p] = IdleNodeCall]
    /\ UNCHANGED <<clientVars, storageVars, nodeApp>>

\* initializeCacheInterface up to its first await (line 57; 123-130;
\* 160-174): no authority is passed, the default instance is taken; when its
\* discovery is complete createAuthority returns at once, yet the awaits of
\* lines 130 and 57 yield before line 58 is reached ("running")
InitializeCacheInterfaceStart(p) ==
    /\ nodeCalls[p].pc = "idle"
    /\ LET app == authorityOf(nodeApp)
           c == [IdleNodeCall EXCEPT
                    !.op = "initializeCacheInterface",
                    !.instance = app.created,
                    !.url = app.url,
                    !.completeAtStart = app.discovered]
       IN /\ nodeApp' = app
          /\ IF app.discovered
             THEN nodeCalls' = [nodeCalls EXCEPT ![p] = [c EXCEPT !.pc = "running"]]
             ELSE nodeCalls' = [nodeCalls EXCEPT ![p] =
                                   [c EXCEPT !.pc = "disc", !.discoveries = 1]]
    /\ UNCHANGED <<clientVars, storageVars>>

\* createAuthority of initializeCacheInterface resumed (lines 173-178): after
\* a successful discovery the authority is complete and the call is still
\* behind the awaits of lines 130 and 57 ("running"); a failed discovery is
\* thrown and line 58 never reached
InitializeCacheInterfaceDiscovered(p, ok) ==
    /\ nodeCalls[p].pc = "disc"
    /\ nodeCalls[p].op = "initializeCacheInterface"
    /\ LET c == nodeCalls[p]
       IN IF ok
          THEN /\ nodeApp' = [nodeApp EXCEPT !.discovered = TRUE]
               /\ nodeCalls' = [nodeCalls EXCEPT ![p] = [c EXCEPT !.pc = "running"]]
          ELSE /\ nodeApp' = nodeApp
               /\ nodeCalls' = [nodeCalls EXCEPT ![p] =
                                   [c EXCEPT !.pc = "done",
                                             !.error = "EndpointDiscoveryIncomplete"]]
    /\ UNCHANGED <<clientVars, storageVars>>

\* initializeCacheInterface resumed behind its await (line 58):
\* this.cacheInterface is assigned and the function body ends
InitializeCacheInterfaceResume(p) ==
    /\ nodeCalls[p].pc = "running"
    /\ nodeCalls[p].op = "initializeCacheInterface"
    /\ nodeApp' = [nodeApp EXCEPT !.cacheInterface = TRUE]
    /\ nodeCalls' = [nodeCalls EXCEPT ![p] =
                        [nodeCalls[p] EXCEPT !.pc = "done", !.returned = TRUE]]
    /\ UNCHANGED <<clientVars, storageVars>>

\* CacheInterface.getAllAccounts(): the accounts held by the storage
\* interface of the configuration (storageInterface: this.storage, line 137)
allAccounts(store) == DOMAIN store.accounts

\* variant: an unset cache interface answers with an empty list
getAllAccounts_emptyWhenUnset(app, store) ==
    IF app.cacheInterface
    THEN [error |-> "", returned |-> TRUE, accounts |-> allAccounts(store)]
    ELSE [error |-> "", returned |-> TRUE, accounts |-> {}]

\* getAllAccounts (lines 197-199): this.cacheInterface.getAllAccounts(); a
\* member access on the unset field throws a TypeError
getAllAccounts(app, store) ==
    IF app.cacheInterface
    THEN [error |-> "", returned |-> TRUE, accounts |-> allAccounts(store)]
    ELSE [error |-> "TypeError", returned |-> FALSE, accounts |-> {}]

\* removeAccount (lines 205-207): this.cacheInterface.removeAccount(account);
\* the account is removed from the storage interface
removeAccount(app, store, accountKey) ==
    IF app.cacheInterface
    THEN [error |-> "", returned |-> TRUE,
          removed |-> removeItem(store, accountKey, ACCOUNT, TRUE)]
    ELSE [error |-> "TypeError", returned |-> FALSE,
          removed |-> [cache |-> store, returned |-> "false", emits |-> 0]]

GetAllAccounts(p) ==
    /\ nodeCalls[p].pc = "idle"
    /\ LET out == getAllAccounts(nodeApp, inMemoryCache)
       IN nodeCalls' = [nodeCalls EXCEPT ![p] =
                           [IdleNodeCall EXCEPT !.pc = "done",
                                                !.op = "getAllAccounts",
                                                !.error = out.error,
                                                !.returned = out.returned,
                                                !.accounts = out.accounts]]
    /\ UNCHANGED <<clientVars, storageVars, nodeApp>>

RemoveAccount(p, accountKey) ==
    /\ nodeCalls[p].pc = "idle"
    /\ LET out == removeAccount(nodeApp, inMemoryCache, accountKey)
       IN /\ nodeCalls' = [nodeCalls EXCEPT ![p] =
                              [IdleNodeCall EXCEPT !.pc = "done",
                                                   !.op = "removeAccount",
                                                   !.error = out.error,
                                                   !.returned = out.returned]]
          /\ inMemoryCache' = out.removed.cache
          /\ changeEmitters' = Emitted(changeEmitters, out.removed.emits)
    /\ UNCHANGED <<clientVars, storageCall, nodeApp>>

\* ------------------------------------------------------- environment
\* the caller has taken the result of a finished operation
Return(p) ==
    /\ calls[p].pc = "done"
    /\ calls' = [calls EXCEPT ![p] = IdleCall]
    /\ UNCHANGED <<now, redirectUri, atLogout, storageVars, appVars, account, defaultDiscovered, cache, persisted,
                   temp, issued>>

Tick ==
    /\ now < MaxTime
    /\ now' = now + 1
    /\ UNCHANGED <<redirectUri, atLogout, storageVars, appVars, account, defaultDiscovered, cache, persisted,
                   temp, issued, calls>>

\* the host stores the request of an authorization it has begun
HostCacheRequest(st, reqAuthority, res, withAuthorityKey) ==
    /\ \A p \in Procs : calls[p].pc \in {"idle", "done"}
    /\ temp' = [params |-> [present |-> TRUE, authority |-> reqAuthority,
                            resource |-> res, codeVerifier |-> ""],
                state |-> st,
                authorities |->
                    {a \in temp.authorities : a.state # st}
                    \cup (IF withAuthorityKey
                          THEN {[state |-> st,
                                 authority |-> IF reqAuthority = "" THEN DefaultAuthority
                                               ELSE reqAuthority]}
                          ELSE {})]
    /\ UNCHANGED <<now, redirectUri, atLogout, storageVars, appVars, account, defaultDiscovered, cache, persisted,
                   issued, calls>>

\* another window of the application writes or removes the persisted id token
\* and client info in the storage it shares with this client
StoreChanged(idToken, clientInfo) ==
    /\ \A p \in Procs : calls[p].pc \in {"idle", "done"}
    /\ persisted # [idToken |-> idToken, clientInfo |-> clientInfo]
    /\ persisted' = [idToken |-> idToken, clientInfo |-> clientInfo]
    /\ UNCHANGED <<now, redirectUri, atLogout, storageVars, appVars, account, defaultDiscovered,
                   cache, temp, issued, calls>>

\* ------------------------------------------------------ specifications
\* Life cycle of one client from its construction: authorization requests
\* stored by the host, code exchanges, silent requests and URL building.
LifeRenewRequests ==
    [present : {TRUE}, scopes : {<<"read">>, <<"cid">>}, authority : RequestAuthorities,
     resource : {""}, account : {NoAccount, "h1"}, forceRefresh : BOOLEAN,
     code : {""}, userRequestState : {""}, isLoginCall : {FALSE}, prompt : {""},
     extraScopesToConsent : {<<>>}]
    \cup {NoRequest}

LifeResponses ==
    {r \in ServerResponses :
        r.kind = "ok" => /\ r.home = "h1"
                         /\ r.scope = <<"read">>
                         /\ (r.error \/ r.malformed) => (r.expires_in = 2)}

Init ==
    /\ now = 0
    /\ redirectUri \in {"", "https://app/redirect"}
    /\ account = NoAccount
    /\ defaultDiscovered = FALSE
    /\ cache = {}
    /\ persisted = [idToken |-> "", clientInfo |-> ""]
    /\ temp = EmptyTemp
    /\ issued = 0
    /\ calls = [p \in Procs |-> IdleCall]
    /\ atLogout = NoLogout
    /\ inMemoryCache = EmptyInMemoryCache
    /\ storageCall = NoStorageCall
    /\ changeEmitters = <<>>
    /\ nodeApp = NewApp("")
    /\ nodeCalls = [p \in Procs |-> IdleNodeCall]

Next ==
    \/ \E r \in LifeRenewRequests : GetValidTokenStart(1, r)
    \/ \E ok \in BOOLEAN : GetValidTokenDiscovered(1, ok)
    \/ \E resp \in LifeResponses : GetValidTokenResponse(1, resp)
    \/ \E r \in CodeResponses : AcquireTokenStart(1, r)
    \/ \E ok \in BOOLEAN : AcquireTokenDiscovered(1, ok)
    \/ \E resp \in LifeResponses : AcquireTokenResponse(1, resp)
    \/ \E r \in UrlRequests : CreateUrlStart(1, r)
    \/ \E ok \in BOOLEAN : CreateUrlDiscovered(1, ok)
    \/ \E v \in PkceVerifiers, g \in Guids : CreateUrlPkce(1, v, g)
    \/ Return(1)
    \/ Tick
    \/ \E a \in RequestAuthorities, k \in BOOLEAN : HostCacheRequest("s1", a, "", k)

Spec == Init /\ [][Next]_vars

\* Silent token requests of a client constructed over a store that holds the
\* tokens, the id token and an unfinished authorization of an earlier session.
Entry(a, sc, h, res, exp, n) ==
    [clientId |-> clientId, authority |-> a, scopes |-> sc,
     homeAccountIdentifier |-> h, resource |-> res,
     accessToken |-> n, refreshToken |-> n, idToken |-> h, expiresOnSec |-> exp]

StoredEntries ==
    {Entry("authA", <<"read">>, "h1", "", 2, 1),
     Entry("authA", <<"read", "write">>, "h1", "", 3, 2),
     Entry("authA", <<"read">>, "h2", "", 3, 3),
     Entry("authB", <<"read">>, "h1", "", 0, 4),
     Entry("authA", <<"cid", "read">>, "h1", "", 3, 5),
     Entry("authA", <<"read">>, "h1", "res", 3, 6),
     Entry("authA", <<"read">>, NoAccount, "", 3, 7)}

StoredCaches == {c \in SUBSET StoredEntries : Cardinality(c) <= 2}

LeftoverTemp ==
    [params |-> [present |-> TRUE, authority |-> "", resource |-> "",
                 codeVerifier |-> ""],
     state |-> "s1",
     authorities |-> {[state |-> "s1", authority |-> DefaultAuthority]}]

CacheRenewRequests ==
    [present : {TRUE}, scopes : RequestScopeArrays, authority : RequestAuthorities,
     resource : {""}, account : Homes \cup {NoAccount}, forceRefresh : BOOLEAN,
     code : {""}, userRequestState : {""}, isLoginCall : {FALSE}, prompt : {""},
     extraScopesToConsent : {<<>>}]
    \cup {[NoRequest EXCEPT !.present = TRUE, !.scopes = <<"read">>,
                            !.resource = "res", !.account = h] : h \in {NoAccount, "h1"}}
    \cup {NoRequest}

\* the scope and lifetime of a response that is rejected are never read: one
\* value of each stands for all
CacheResponses ==
    {r \in ServerResponses :
        r.kind = "ok" => /\ r.home = "h1"
                         /\ (r.error \/ r.malformed) =>
                                (r.scope = <<"read">> /\ r.expires_in = 2)}

InitCache ==
    /\ now = 0
    /\ redirectUri \in RedirectUriConfigs
    /\ account = NoAccount
    /\ defaultDiscovered = FALSE
    /\ cache \in StoredCaches
    /\ persisted \in {[idToken |-> "", clientInfo |-> ""],
                      [idToken |-> "h1", clientInfo |-> "h1"]}
    \* a redirect URI given as a function: over the store of one signed-in user
    /\ redirectUri \in UriFunctions =>
          /\ cache = {Entry("authA", <<"read">>, "h1", "", 2, 1)}
          /\ persisted.idToken = "h1"
    /\ temp = LeftoverTemp
    /\ issued = 0
    /\ calls = [p \in Procs |-> IdleCall]
    /\ atLogout = NoLogout
    /\ inMemoryCache = EmptyInMemoryCache
    /\ storageCall = NoStorageCall
    /\ changeEmitters = <<>>
    /\ nodeApp = NewApp("")
    /\ nodeCalls = [p \in Procs |-> IdleNodeCall]

NextCache ==
    \/ \E r \in CacheRenewRequests : GetValidTokenStart(1, r)
    \/ \E ok \in BOOLEAN : GetValidTokenDiscovered(1, ok)
    \/ \E resp \in CacheResponses : GetValidTokenResponse(1, resp)
    \/ Return(1)
    \/ Tick

SpecCache == InitCache /\ [][NextCache]_vars

\* A signed-in session and its end: the client is constructed over a store
\* of an earlier session, asks for the account, logs out and asks for tokens.
SessionCaches ==
    {c \in SUBSET {e \in StoredEntries : e.accessToken \in {2, 3, 4, 7}} :
        Cardinality(c) <= 2}

SessionRequests ==
    [present : {TRUE}, scopes : {<<"read">>, <<"cid">>}, authority : RequestAuthorities,
     resource : {""}, account : Homes \cup {NoAccount}, forceRefresh : {FALSE},
     code : {""}, userRequestState : {""}, isLoginCall : {FALSE}, prompt : {""},
     extraScopesToConsent : {<<>>}]

SessionResponses ==
    {r \in LifeResponses : ~r.malformed /\ r.expires_in = 2}

PersistedValues == [idToken : {"", "h1"}, clientInfo : {"", "h1"}]

InitSession ==
    /\ now = 0
    /\ redirectUri = "https://app/redirect"
    /\ account = NoAccount
    /\ defaultDiscovered = FALSE
    /\ cache \in SessionCaches
    /\ persisted \in PersistedValues
    /\ temp \in {EmptyTemp, LeftoverTemp}
    /\ issued = 0
    /\ calls = [p \in Procs |-> IdleCall]
    /\ atLogout = NoLogout
    /\ inMemoryCache = EmptyInMemoryCache
    /\ storageCall = NoStorageCall
    /\ changeEmitters = <<>>
    /\ nodeApp = NewApp("")
    /\ nodeCalls = [p \in Procs |-> IdleNodeCall]

NextSession ==
    \/ GetAccount(1)
    \/ \E a \in RequestAuthorities : LogoutStart(1, a)
    \/ \E ok \in BOOLEAN : LogoutDiscovered(1, ok)
    \/ \E r \in SessionRequests : GetValidTokenStart(1, r)
    \/ \E ok \in BOOLEAN : GetValidTokenDiscovered(1, ok)
    \/ \E resp \in SessionResponses : GetValidTokenResponse(1, resp)
    \/ HostCacheRequest("s1", "authB", "", FALSE)
    \/ \E r \in CodeResponses : AcquireTokenStart(1, r)
    \/ \E ok \in BOOLEAN : AcquireTokenDiscovered(1, ok)
    \/ \E resp \in SessionResponses : AcquireTokenResponse(1, resp)
    \/ \E v \in PersistedValues : StoreChanged(v.idToken, v.clientInfo)
    \/ Return(1)

SpecSession == InitSession /\ [][NextSession]_vars

\* The node key-value store on its own: items are set, read and removed
\* under the keys and entry types below, and the store is cleared.
StorageArguments ==
    {<<"acct1", ACCOUNT>>, <<"acct1", APP_META_DATA>>, <<"app1", APP_META_DATA>>,
     <<"h1-idtoken", CREDENTIAL>>, <<"h1-accesstoken", CREDENTIAL>>,
     <<"h1-refreshtoken", CREDENTIAL>>, <<"h1-other", CREDENTIAL>>,
     <<"acct1", "">>, <<"app1", "Temporary">>}

\* every key and type with the inMemory flag set, two of them without it
StorageCalls ==
    {<<a[1], a[2], TRUE>> : a \in StorageArguments}
    \cup {<<"acct1", ACCOUNT, FALSE>>, <<"h1-accesstoken", CREDENTIAL, FALSE>>}

InitStorage ==
    /\ Init
    /\ redirectUri = ""

NextStorage ==
    \/ \E a \in StorageCalls, v \in StorageValues : StorageSetItem(a[1], v, a[2], a[3])
    \/ \E a \in StorageCalls : StorageGetItem(a[1], a[2], a[3])
    \/ \E a \in StorageCalls : StorageRemoveItem(a[1], a[2], a[3])
    \/ \E m \in BOOLEAN : StorageClear(m)
    \/ StorageEmitChange

SpecStorage == InitStorage /\ [][NextStorage]_vars



\* Two callers of one client ask for a token of the same cache key at the
\* same time: the store holds one entry of the signed-in account.
RaceCaches ==
    {{Entry("authA", <<"read">>, "h1", "", 1, 1)},
     {Entry("authA", <<"read">>, "h1", "", 3, 2)}}

RaceRequests ==
    [present : {TRUE}, scopes : {<<"read">>}, authority : {""},
     resource : {""}, account : {NoAccount, "h1"}, forceRefresh : BOOLEAN,
     code : {""}, userRequestState : {""}, isLoginCall : {FALSE}, prompt : {""},
     extraScopesToConsent : {<<>>}]

InitRace ==
    /\ now = 0
    /\ redirectUri = "https://app/redirect"
    /\ account = NoAccount
    /\ defaultDiscovered = FALSE
    /\ cache \in RaceCaches
    /\ persisted = [idToken |-> "h1", clientInfo |-> "h1"]
    /\ temp = EmptyTemp
    /\ issued = 0
    /\ calls = [p \in Procs |-> IdleCall]
    /\ atLogout = NoLogout
    /\ inMemoryCache = EmptyInMemoryCache
    /\ storageCall = NoStorageCall
    /\ changeEmitters = <<>>
    /\ nodeApp = NewApp("")
    /\ nodeCalls = [p \in Procs |-> IdleNodeCall]

NextRace ==
    \/ \E p \in Procs, r \in RaceRequests : GetValidTokenStart(p, r)
    \/ \E p \in Procs, ok \in BOOLEAN : GetValidTokenDiscovered(p, ok)
    \/ \E p \in Procs, resp \in SessionResponses : GetValidTokenResponse(p, resp)
    \/ \E p \in Procs : Return(p)

SpecRace == InitRace /\ [][NextRace]_vars



\* Failing and cancelled requests: authorization requests are stored one at a
\* time, code exchanges and silent requests of the first caller fail or
\* succeed, the request in progress is cancelled, and either caller asks for
\* the account.
CleanupRequests ==
    {NoRequest} \cup
    {[NoRequest EXCEPT !.present = TRUE, !.scopes = s] : s \in {<<"read">>, <<"cid">>}}

InitCleanup ==
    /\ now = 0
    /\ redirectUri \in {"https://app/redirect", "() => ''"}
    /\ account = NoAccount
    /\ defaultDiscovered = FALSE
    /\ cache \in {{}, {Entry("authA", <<"read">>, "h1", "", 1, 1)}}
    /\ persisted \in PersistedValues
    /\ temp \in {EmptyTemp, LeftoverTemp}
    /\ issued = 0
    /\ calls = [p \in Procs |-> IdleCall]
    /\ atLogout = NoLogout
    /\ inMemoryCache = EmptyInMemoryCache
    /\ storageCall = NoStorageCall
    /\ changeEmitters = <<>>
    /\ nodeApp = NewApp("")
    /\ nodeCalls = [p \in Procs |-> IdleNodeCall]

\* the token responses carry the account of either user, or no account
ExchangeResponses ==
    {r \in ServerResponses :
        /\ ~r.malformed
        /\ r.kind = "ok" => (r.scope = <<"read">> /\ r.expires_in = 2)}

NextCleanup ==
    \/ CancelRequest(1)
    \/ \E p \in Procs : GetAccount(p)
    \/ \E r \in CodeResponses : AcquireTokenStart(1, r)
    \/ \E ok \in BOOLEAN : AcquireTokenDiscovered(1, ok)
    \/ \E resp \in ExchangeResponses : AcquireTokenResponse(1, resp)
    \/ \E r \in CleanupRequests : GetValidTokenStart(1, r)
    \/ \E ok \in BOOLEAN : GetValidTokenDiscovered(1, ok)
    \/ \E resp \in ExchangeResponses : GetValidTokenResponse(1, resp)
    \/ \E a \in RequestAuthorities, k \in BOOLEAN : HostCacheRequest("s1", a, "", k)
    \/ \E p \in Procs : Return(p)

SpecCleanup == InitCleanup /\ [][NextCleanup]_vars



\* Two authorization requests of one client are outstanding together: the
\* request begun with state "s1" asks for no resource, the one begun with
\* state "s2" for the resource "res"; their code responses are exchanged,
\* the pending request is cancelled, and silent token requests are made in
\* between.
ResourceOf(state) == IF state = "s2" THEN "res" ELSE ""

NextTwoRequests ==
    \/ \E st \in States, a \in RequestAuthorities :
          HostCacheRequest(st, a, ResourceOf(st), TRUE)
    \/ \E r \in CodeResponses : AcquireTokenStart(1, r)
    \/ \E ok \in BOOLEAN : AcquireTokenDiscovered(1, ok)
    \/ \E resp \in SessionResponses : AcquireTokenResponse(1, resp)
    \/ CancelRequest(1)
    \/ \E r \in CleanupRequests : GetValidTokenStart(1, r)
    \/ \E ok \in BOOLEAN : GetValidTokenDiscovered(1, ok)
    \/ \E resp \in SessionResponses : GetValidTokenResponse(1, resp)
    \/ Tick
    \/ Return(1)

InitTwoRequests ==
    /\ Init
    /\ redirectUri = "https://app/redirect"

SpecTwoRequests == InitTwoRequests /\ [][NextTwoRequests]_vars



\* The node client application with two callers: URLs are built and tokens
\* acquired, with and without an authority in the request.
InitApp ==
    /\ now = 0
    /\ redirectUri = ""
    /\ account = NoAccount
    /\ defaultDiscovered = FALSE
    /\ cache = {}
    /\ persisted = [idToken |-> "", clientInfo |-> ""]
    /\ temp = EmptyTemp
    /\ issued = 0
    /\ calls = [p \in Procs |-> IdleCall]
    /\ atLogout = NoLogout
    /\ inMemoryCache = EmptyInMemoryCache
    /\ storageCall = NoStorageCall
    /\ changeEmitters = <<>>
    /\ nodeApp \in {NewApp(""), NewApp("authA")}
    /\ nodeCalls = [p \in Procs |-> IdleNodeCall]

NextApp ==
    \/ \E p \in Procs, o \in NodeOperations, a \in RequestAuthorities :
          NodeCallStart(p, o, a)
    \/ \E p \in Procs, ok \in BOOLEAN : NodeCallDiscovered(p, ok)
    \/ \E p \in Procs : NodeCallResume(p)
    \/ \E p \in Procs, e \in {"", "ServerError"} : NodeCallAnswered(p, e)
    \/ \E p \in Procs : NodeCallReturn(p)

SpecApp == InitApp /\ [][NextApp]_vars



\* The node key-value store with change emitters: emitters are registered,
\* the cache is replaced as a whole, and items are set and removed.
EmitterCalls ==
    {<<"acct1", ACCOUNT, TRUE>>, <<"h1-accesstoken", CREDENTIAL, TRUE>>,
     <<"h1-other", CREDENTIAL, TRUE>>, <<"acct1", "", TRUE>>,
     <<"acct1", ACCOUNT, FALSE>>}

NewCaches ==
    {EmptyInMemoryCache,
     [EmptyInMemoryCache EXCEPT !.accounts = Put(EmptyMap, "acct1", "e2")]}

NextEmitters ==
    \/ StorageRegisterChangeEmitter
    \/ StorageEmitChange
    \/ \E c \in NewCaches : StorageSetCache(c)
    \/ \E a \in EmitterCalls, v \in StorageValues : StorageSetItem(a[1], v, a[2], a[3])
    \/ \E a \in EmitterCalls : StorageRemoveItem(a[1], a[2], a[3])

SpecEmitters == InitStorage /\ [][NextEmitters]_vars



\* The account interface of the node client application: the cache interface
\* is initialised (or not), accounts are listed and removed by two callers,
\* a token is acquired by code, and accounts reach the store.
AccountKeys == {"acct1"}

NextAccounts ==
    \/ \E p \in Procs : InitializeCacheInterfaceStart(p)
    \/ \E p \in Procs, ok \in BOOLEAN : InitializeCacheInterfaceDiscovered(p, ok)
    \/ \E p \in Procs : InitializeCacheInterfaceResume(p)
    \/ \E p \in Procs : GetAllAccounts(p)
    \/ \E p \in Procs, k \in AccountKeys : RemoveAccount(p, k)
    \/ NodeCallStart(1, "acquireTokenByCode", "")
    \/ \E ok \in BOOLEAN : NodeCallDiscovered(1, ok)
    \/ NodeCallResume(1)
    \/ NodeCallAnswered(1, "")
    \/ \E p \in Procs : NodeCallReturn(p)
    \/ \E k \in AccountKeys : StorageSetItem(k, "e1", ACCOUNT, TRUE)

SpecAccounts == InitApp /\ [][NextAccounts]_vars


\* Authorization URLs built by clients of every redirect URI configuration:
\* none, a string, a function returning the empty string, a function
\* returning a URI.
InitUrl ==
    /\ now = 0
    /\ redirectUri \in RedirectUriConfigs \cup UriFunctions
    /\ account = NoAccount
    /\ defaultDiscovered = FALSE
    /\ cache = {}
    /\ persisted = [idToken |-> "", clientInfo |-> ""]
    /\ temp = EmptyTemp
    /\ issued = 0
    /\ calls = [p \in Procs |-> IdleCall]
    /\ atLogout = NoLogout
    /\ inMemoryCache = EmptyInMemoryCache
    /\ storageCall = NoStorageCall
    /\ changeEmitters = <<>>
    /\ nodeApp = NewApp("")
    /\ nodeCalls = [p \in Procs |-> IdleNodeCall]

NextUrl ==
    \/ \E r \in UrlRequests : CreateUrlStart(1, r)
    \/ \E ok \in BOOLEAN : CreateUrlDiscovered(1, ok)
    \/ \E v \in PkceVerifiers, g \in Guids : CreateUrlPkce(1, v, g)
    \/ Return(1)

SpecUrl == InitUrl /\ [][NextUrl]_vars


\* ================================================================ claims
RequestedScopes(c) == {Lower(c.req.scopes[i]) : i \in 1..Len(c.req.scopes)}
EntryScopes(e) == {Lower(e.scopes[i]) : i \in 1..Len(e.scopes)}

\* the entries, at the time of the lookup, with the request's client id,
\* authority, resource and home account identifier
KeyMatchingEntries(c) ==
    {e \in c.seen : /\ e.clientId = clientId
                    /\ e.authority = c.authority
                    /\ e.resource = c.req.resource
                    /\ e.homeAccountIdentifier = c.account}

\* ... whose scopes are a superset of the requested scopes
MatchingEntries(c) ==
    {e \in KeyMatchingEntries(c) : RequestedScopes(c) \subseteq EntryScopes(e)}

LookedUp(c) == c.op = "getValidToken" /\ c.looked

Fresh(c, e) == e.expiresOnSec > c.seenNow + tokenRenewalOffsetSeconds

\* C1: with exactly one matching entry whose expiry is later than now + the
\* renewal offset and forceRefresh = false, getValidToken returns the cached
\* access token and sends nothing to the token endpoint.
C1_CachedTokenReturned ==
    \A p \in Procs :
        LET c == calls[p]
        IN (/\ LookedUp(c)
            /\ Cardinality(MatchingEntries(c)) = 1
            /\ ~c.req.forceRefresh
            /\ \A e \in MatchingEntries(c) : Fresh(c, e))
           => /\ c.pc = "done"
              /\ c.result.kind = "ok"
              /\ c.token = 0
              /\ \A e \in MatchingEntries(c) :
                    /\ c.result.accessToken = e.accessToken
                    /\ c.result.expiresOn = e.expiresOnSec * 1000

C1_Witness ==
    \E p \in Procs :
        LET c == calls[p]
        IN /\ LookedUp(c)
           /\ Cardinality(c.seen) = 2
           /\ Cardinality(MatchingEntries(c)) = 1
           /\ ~c.req.forceRefresh
           /\ \A e \in MatchingEntries(c) : Fresh(c, e)
           /\ c.pc = "done"
           /\ c.result.kind = "ok"
           /\ c.result.fromCache
           /\ c.token = 0

RefreshDue(c) ==
    /\ LookedUp(c)
    /\ Cardinality(MatchingEntries(c)) = 1
    /\ \/ c.req.forceRefresh
       \/ \A e \in MatchingEntries(c) : ~Fresh(c, e)

RefreshDone(c) ==
    /\ c.pc \in {"gvt_token", "done"}
    /\ c.token = 1
    /\ \A e \in MatchingEntries(c) : c.sentRefreshToken = e.refreshToken
    /\ ~c.result.fromCache
    /\ c.pc = "done" =>
          /\ c.answer # ""
          /\ c.result.kind = "ok" =>
                \A e \in c.seen : c.result.accessToken # e.accessToken

\* C2 as stated: with exactly one matching entry, a forced refresh or an
\* expiry not later than now + the renewal offset always leads to one refresh
\* request with the entry's refresh token, whose result is returned.
C2_AsStated ==
    \A p \in Procs : RefreshDue(calls[p]) => RefreshDone(calls[p])

\* C2 amended: the same, for a client with a configured redirect URI
\* (without one the refresh request cannot be built and nothing is sent).
C2_RefreshWhenDue ==
    \A p \in Procs :
        (RefreshDue(calls[p]) /\ ~getRedirectUri(redirectUri).thrown) => RefreshDone(calls[p])

C2_Witness ==
    \E p \in Procs :
        LET c == calls[p]
        IN /\ RefreshDue(c)
           /\ ~c.req.forceRefresh
           /\ \A e \in MatchingEntries(c) :
                 e.expiresOnSec = c.seenNow + tokenRenewalOffsetSeconds
           /\ c.pc = "done"
           /\ c.token = 1
           /\ c.result.kind = "ok"
           /\ ~c.result.fromCache

\* a due refresh of a client whose redirect URI is a function returning the
\* empty string: the request is sent
C2_WitnessUriFunction ==
    \E p \in Procs :
        LET c == calls[p]
        IN /\ redirectUri = "() => ''"
           /\ RefreshDue(c)
           /\ RefreshDone(c)
           /\ c.pc = "done"
           /\ c.result.kind = "ok"

\* C3: with more than one matching entry getValidToken fails with
\* MultipleMatchingTokensInCache, returns no token and sends no token request.
C3_MultipleMatchesFail ==
    \A p \in Procs :
        LET c == calls[p]
        IN (LookedUp(c) /\ Cardinality(MatchingEntries(c)) > 1)
           => /\ c.pc = "done"
              /\ c.result.kind = "error"
              /\ c.result.error = "MultipleMatchingTokensInCache"
              /\ c.result.accessToken = 0
              /\ c.token = 0

C3_Witness ==
    \E p \in Procs :
        LET c == calls[p]
        IN /\ LookedUp(c)
           /\ Cardinality(MatchingEntries(c)) = 2
           /\ c.pc = "done"
           /\ c.result.error = "MultipleMatchingTokensInCache"

\* C4: with no matching entry (none with the request's key, or none of those
\* with enough scopes) getValidToken fails with NoTokensFound and sends no
\* token request.
C4_NoTokensFound ==
    \A p \in Procs :
        LET c == calls[p]
        IN (LookedUp(c) /\ MatchingEntries(c) = {})
           => /\ c.pc = "done"
              /\ c.result.kind = "error"
              /\ c.result.error = "NoTokensFound"
              /\ c.token = 0

C4_Witness ==
    \E p \in Procs :
        LET c == calls[p]
        IN /\ LookedUp(c)
           /\ KeyMatchingEntries(c) # {}
           /\ MatchingEntries(c) = {}
           /\ c.pc = "done"
           /\ c.result.error = "NoTokensFound"
           /\ c.token = 0


Finishes(p, op) ==
    /\ calls[p].pc # "done"
    /\ calls'[p].pc = "done"
    /\ calls'[p].op = op

\* C5: a getValidToken request for login scopes with no account in the
\* request, none on the instance and none derivable from the store fails with
\* UserLoginRequired before any discovery, lookup or token request; a request
\* for other scopes never fails with that error.
C5_LoginRequired ==
    [][\A p \in Procs :
          LET c == calls'[p]
          IN /\ (/\ calls[p].pc = "idle"
                 /\ c.op = "getValidToken"
                 /\ c.req.present
                 /\ clientId \in RequestedScopes(c)
                 /\ c.req.account = NoAccount
                 /\ account = NoAccount
                 /\ (persisted.idToken = "" \/ persisted.clientInfo = ""))
                => /\ c.pc = "done"
                   /\ c.result.error = "UserLoginRequired"
                   /\ c.discovery = 0
                   /\ ~c.looked
                   /\ c.token = 0
             /\ (c.op = "getValidToken" /\ clientId \notin RequestedScopes(c))
                => c.result.error # "UserLoginRequired"]_vars

C5_Witness ==
    \E p \in Procs :
        LET c == calls[p]
        IN /\ c.op = "getValidToken"
           /\ c.pc = "done"
           /\ clientId \in RequestedScopes(c)
           /\ c.req.account = NoAccount
           /\ c.result.error = "UserLoginRequired"
           /\ c.discovery = 0
           /\ cache # {}

TempCleared(t) == ~t.params.present /\ t.state = "" /\ t.authorities = {}

\* C6 as stated: whenever getValidToken fails, the temporary request state
\* has been reset and the current account is absent when the error leaves
\* the operation.
C6_AsStated ==
    [][\A p \in Procs :
          (Finishes(p, "getValidToken") /\ calls'[p].result.kind = "error")
          => (account' = NoAccount /\ TempCleared(temp'))]_vars

\* C7: whenever acquireToken fails, the temporary request state of the
\* attempt's state value has been cleared, the current account is absent and
\* nothing of the failed exchange has been stored.
C7_AcquireTokenFailureCleans ==
    [][\A p \in Procs :
          (Finishes(p, "acquireToken") /\ calls'[p].result.kind = "error")
          => /\ account' = NoAccount
             /\ ~temp'.params.present
             /\ temp'.state = ""
             /\ \A a \in temp'.authorities : a.state # CatchState(calls'[p].req)
             /\ cache' = cache
             /\ persisted' = persisted]_vars

C7_Witness ==
    \E p \in Procs :
        LET c == calls[p]
        IN /\ c.op = "acquireToken"
           /\ c.pc = "done"
           /\ c.result.error = "InvalidResponse"
           /\ c.token = 1
           /\ account = NoAccount
           /\ persisted.idToken # ""
           /\ TempCleared(temp)

\* C8: the error the caller of acquireToken or getValidToken receives is the
\* error raised inside the operation, and a call in which an error was raised
\* does not complete successfully.
C8_ErrorIdentity ==
    \A p \in Procs :
        LET c == calls[p]
        IN (c.pc = "done" /\ c.op \in {"acquireToken", "getValidToken"})
           => /\ c.raised # "" => (c.result.kind = "error" /\ c.result.error = c.raised)
              /\ c.result.kind = "ok" => c.raised = ""
              /\ c.result.kind \in {"ok", "error"}

C8_Witness ==
    \E p \in Procs :
        LET c == calls[p]
        IN /\ c.pc = "done"
           /\ c.op = "acquireToken"
           /\ c.cleaned
           /\ c.raised = "ServerError"
           /\ c.result.error = "ServerError"

\* C9: when the token endpoint's answer carries an error field, the exchange
\* (code or refresh) fails with the server error, the credential cache and
\* the persisted id token are what they were, and the current account is not
\* set from the answer.
C9_ErrorResponseStoresNothing ==
    [][\A p \in Procs :
          (/\ calls[p].pc \in {"at_token", "gvt_token"}
           /\ calls'[p].pc = "done"
           /\ calls'[p].answer = "error")
          => /\ calls'[p].result.kind = "error"
             /\ calls'[p].result.error = "ServerError"
             /\ cache' = cache
             /\ persisted' = persisted
             /\ account' \in {account, NoAccount}]_vars

C9_Witness ==
    \E p \in Procs :
        LET c == calls[p]
        IN /\ c.pc = "done"
           /\ c.op = "getValidToken"
           /\ c.answer = "error"
           /\ c.result.error = "ServerError"
           /\ c.token = 1
           /\ cache # {}

\* C10 as stated: building an authorization URL without a configured
\* redirect URI fails with the redirect-URI-empty error, and no discovery
\* round trip has been made before.
C10_AsStated ==
    \A p \in Procs :
        LET c == calls[p]
        IN (c.op = "createUrl" /\ redirectUri = "")
           => /\ c.discovery = 0
              /\ c.pc = "done" => c.result.error = "RedirectUriEmpty"


BuiltUrl(c) == c.op = "createUrl" /\ c.pc = "done" /\ c.result.kind = "ok"

\* C11 as stated: once an authorization URL has been built, the request it
\* was built from is stored in the temporary request state under the state
\* value of the URL, and a code response echoing that state retrieves it.
C11_AsStated ==
    \A p \in Procs :
        LET c == calls[p]
        IN BuiltUrl(c)
           => /\ temp.params.present
              /\ temp.state = c.url.state
              /\ getCachedRequest(temp, c.url.state).error = ""
              /\ getCachedRequest(temp, c.url.state).request.resource = c.req.resource

ReadsStoredRequest(p) ==
    /\ calls[p].pc = "idle"
    /\ calls'[p].op = "acquireToken"
    /\ calls'[p].readRequest

\* C12: the stored temporary request is consumed once: it is gone from the
\* moment acquireToken has read it, through the exchange and at its end,
\* successful or not; an acquireToken call that finds no stored request fails
\* with TokenRequestCacheError and sends nothing to the token endpoint.
C12_ConsumedOnce ==
    [][\A p \in Procs :
          /\ ReadsStoredRequest(p) => ~temp'.params.present
          /\ (calls'[p].op = "acquireToken" /\ calls'[p].pc \in {"at_disc", "at_token"})
                => ~temp'.params.present
          /\ Finishes(p, "acquireToken") => ~temp'.params.present
          /\ (ReadsStoredRequest(p) /\ ~temp.params.present)
                => /\ calls'[p].pc = "done"
                   /\ calls'[p].result.error = "TokenRequestCacheError"
                   /\ calls'[p].discovery = 0
                   /\ calls'[p].token = 0]_vars

\* a second code exchange after a successful one, with nothing stored in between
C12_Witness ==
    \E p \in Procs :
        LET c == calls[p]
        IN /\ c.op = "acquireToken"
           /\ c.pc = "done"
           /\ c.req.code # ""
           /\ c.readRequest
           /\ c.result.error = "TokenRequestCacheError"
           /\ c.token = 0
           /\ issued = 1
           /\ cache # {}

\* C13 as stated: every authorization URL that was built carries a code
\* challenge with method S256, and the verifier of that challenge is in the
\* cache when the URL is returned.
C13_AsStated ==
    \A p \in Procs :
        LET c == calls[p]
        IN BuiltUrl(c)
           => /\ c.url.codeChallengeMethod = "S256"
              /\ c.url.codeChallenge = codeChallengeOf(c.verifier)
              /\ temp.params.present
              /\ codeChallengeOf(temp.params.codeVerifier) = c.url.codeChallenge

\* C14: acquireToken without a code response, or with an empty code, fails
\* with TokenRequestCannotBeMade before the stored request is read and
\* before any discovery or token request.
C14_NoCodeFails ==
    [][\A p \in Procs :
          (/\ calls[p].pc = "idle"
           /\ calls'[p].op = "acquireToken"
           /\ (~calls'[p].req.present \/ calls'[p].req.code = ""))
          => /\ calls'[p].pc = "done"
             /\ calls'[p].result.kind = "error"
             /\ calls'[p].result.error = "TokenRequestCannotBeMade"
             /\ ~calls'[p].readRequest
             /\ calls'[p].discovery = 0
             /\ calls'[p].token = 0]_vars

\* an empty code, while a request is stored and nothing has been discovered
C14_Witness ==
    \E p \in Procs :
        LET c == calls[p]
        IN /\ c.op = "acquireToken"
           /\ c.pc = "done"
           /\ c.req.present
           /\ c.req.code = ""
           /\ c.result.error = "TokenRequestCannotBeMade"
           /\ ~c.readRequest
           /\ ~defaultDiscovered


\* C15: getAccount never fails; with an account cached on the instance it
\* returns that account without reading the store; otherwise it returns
\* absent when the persisted id token or client info is missing, and only
\* with both present derives an account and caches it on the instance.
C15_GetAccount ==
    [][\A p \in Procs :
          (calls[p].pc = "idle" /\ calls'[p].op = "getAccount")
          => LET c == calls'[p]
             IN /\ c.pc = "done"
                /\ c.result.kind = "ok"
                /\ c.raised = ""
                /\ persisted' = persisted
                /\ account # NoAccount
                      => /\ c.result.account = account
                         /\ c.storeReads = 0
                         /\ account' = account
                /\ (account = NoAccount
                        /\ (persisted.idToken = "" \/ persisted.clientInfo = ""))
                      => /\ c.result.account = NoAccount
                         /\ account' = NoAccount
                /\ (account = NoAccount
                        /\ persisted.idToken # "" /\ persisted.clientInfo # "")
                      => /\ c.result.account # NoAccount
                         /\ account' = c.result.account]_vars

\* the cached account is returned again after the store has lost the id token
C15_Witness ==
    \E p \in Procs :
        LET c == calls[p]
        IN /\ c.op = "getAccount"
           /\ c.pc = "done"
           /\ c.storeReads = 0
           /\ c.result.account = "h1"
           /\ account = "h1"
           /\ persisted.idToken = ""

LogoutStep(p) == calls[p].pc = "idle" /\ calls'[p].op = "logout"

\* getValidToken is answered from the cache in this step
CacheAnswerStep(p) ==
    /\ Finishes(p, "getValidToken")
    /\ calls'[p].result.kind = "ok"
    /\ calls'[p].result.fromCache

\* the entries a logout is to remove: those of this client for the account
\* that was signed in (every account when none was), under the authority
\* given to logout (every authority when none was)
LoggedOutEntries(l) ==
    {e \in l.entries :
        /\ e.clientId = clientId
        /\ (l.home = NoAccount \/ e.homeAccountIdentifier = l.home)
        /\ (l.authority = "" \/ e.authority = l.authority)}

\* C16: after logout the current account is absent, the entries of the
\* logged-out account are removed and the other cache items cleared (the
\* persisted id token and client info, the temporary request state and every
\* other access-token entry), and no later getValidToken is answered with a
\* token that was in the cache before the logout.
C16_LogoutRemovesAccountTokens ==
    [][\A p \in Procs :
          /\ LogoutStep(p)
                => /\ account' = NoAccount
                   /\ persisted' = [idToken |-> "", clientInfo |-> ""]
                   /\ TempCleared(temp')
                   /\ atLogout'.entries = cache
                   /\ cache' = {}
          /\ (CacheAnswerStep(p) /\ atLogout.happened)
                => calls'[p].item \notin atLogout.entries]_vars

\* a logout has removed the tokens of h1 and of the other accounts; a later
\* request has acquired a new token and is answered from the cache with it
C16_Witness ==
    \E p \in Procs :
        LET c == calls[p]
        IN /\ c.op = "getValidToken"
           /\ c.pc = "done"
           /\ c.result.fromCache
           /\ atLogout.happened
           /\ atLogout.home = "h1"
           /\ LoggedOutEntries(atLogout) # {}
           /\ atLogout.entries \ LoggedOutEntries(atLogout) # {}
           /\ c.item \notin atLogout.entries

\* a logout has emptied the cache; the next getValidToken finds no token
C16_WitnessNoTokens ==
    \E p \in Procs :
        LET c == calls[p]
        IN /\ c.op = "getValidToken"
           /\ c.pc = "done"
           /\ c.result.error = "NoTokensFound"
           /\ atLogout.happened
           /\ atLogout.entries # {}
           /\ cache = {}


Acquisition(c) == c.op \in {"acquireToken", "getValidToken"}

\* the call works on the default authority instance: no authority in the
\* request, or none stored with the request of the code exchange
OnDefaultAuthority(c) ==
    IF c.op = "acquireToken" THEN c.tokenAuthority = "" ELSE c.req.authority = ""

\* C17: a call of acquireToken or getValidToken makes at most one discovery
\* round trip, and only when the discovery of its authority is not complete,
\* and at most one token request, never before the discovery has ended; a
\* call answered from the cache makes no token request.
C17_RoundTrips ==
    [][\A p \in Procs :
          LET c == calls'[p]
          IN Acquisition(c)
             => /\ c.discovery <= 1
                /\ c.token <= 1
                /\ (calls[p].pc = "idle" /\ c.discovery = 1)
                      => ~(OnDefaultAuthority(c) /\ defaultDiscovered)
                /\ c.pc \in {"at_disc", "gvt_disc"} => c.token = 0
                /\ (calls[p].pc # "idle" /\ calls[p].token = 1)
                      => c.discovery = calls[p].discovery
                /\ c.result.fromCache => c.token = 0]_vars

\* a refresh on the default authority whose endpoints an earlier call resolved
C17_Witness ==
    \E p \in Procs :
        LET c == calls[p]
        IN /\ c.op = "getValidToken"
           /\ c.pc = "done"
           /\ defaultDiscovered
           /\ c.discovery = 0
           /\ c.token = 1
           /\ c.answer # ""

ExtraScopes(c) ==
    {Lower(c.req.extraScopesToConsent[i]) : i \in 1..Len(c.req.extraScopesToConsent)}

\* C18: the scopes of a login URL are the requested scopes, the client id
\* and the extra scopes to consent; the scopes of an acquire-token URL are
\* the requested scopes only.
C18_UrlScopes ==
    \A p \in Procs :
        LET c == calls[p]
        IN BuiltUrl(c)
           => IF c.req.isLoginCall
              THEN /\ clientId \in c.result.scopes
                   /\ c.result.scopes =
                         RequestedScopes(c) \cup {clientId} \cup ExtraScopes(c)
              ELSE /\ c.result.scopes = RequestedScopes(c)
                   /\ clientId \in c.result.scopes => clientId \in RequestedScopes(c)

C18_Witness ==
    \E p \in Procs :
        LET c == calls[p]
        IN /\ BuiltUrl(c)
           /\ c.req.isLoginCall
           /\ ExtraScopes(c) = {"write"}
           /\ c.result.scopes = {"read", "cid", "write"}

\* an acquire-token URL for a request that names extra scopes to consent
C18_WitnessAcquireTokenUrl ==
    \E p \in Procs :
        LET c == calls[p]
        IN /\ BuiltUrl(c)
           /\ ~c.req.isLoginCall
           /\ ExtraScopes(c) = {"write"}
           /\ c.result.scopes = {"read"}


\* what the store holds under a key for an entry type: the value in the
\* section of that type, "null" when there is none
Stored(c, key, type) ==
    IF type = ACCOUNT THEN Lookup(c.accounts, key)
    ELSE IF type = APP_META_DATA THEN Lookup(c.appMetadata, key)
    ELSE IF type = CREDENTIAL /\ getCredentialType(key) = "IdToken"
    THEN Lookup(c.idTokens, key)
    ELSE IF type = CREDENTIAL /\ getCredentialType(key) = "AccessToken"
    THEN Lookup(c.accessTokens, key)
    ELSE IF type = CREDENTIAL /\ getCredentialType(key) = "RefreshToken"
    THEN Lookup(c.refreshTokens, key)
    ELSE Null

\* an account, an app-metadata entry or a credential of a recognized subtype
Recognized(key, type) ==
    \/ type \in {ACCOUNT, APP_META_DATA}
    \/ type = CREDENTIAL
          /\ getCredentialType(key) \in {"IdToken", "AccessToken", "RefreshToken"}

StorageStep == <<inMemoryCache, storageCall>>' # <<inMemoryCache, storageCall>>

\* the round trip for the calls that satisfy Applies
RoundTrip(Applies(_)) ==
    StorageStep =>
      LET s == storageCall'
      IN /\ (s.op = "setItem" /\ Applies(s))
               => /\ Stored(inMemoryCache', s.key, s.type) = s.value
                  /\ getItem(inMemoryCache', s.key, s.type, s.inMemory) = s.value
         /\ (s.op = "getItem" /\ Applies(s))
               => /\ s.returned = Stored(inMemoryCache, s.key, s.type)
                  /\ inMemoryCache' = inMemoryCache
         /\ (s.op = "removeItem" /\ Applies(s))
               => /\ s.returned = "true" <=> Stored(inMemoryCache, s.key, s.type) # Null
                  /\ Stored(inMemoryCache', s.key, s.type) = Null
                  /\ getItem(inMemoryCache', s.key, s.type, s.inMemory) = Null
         /\ \A a \in StorageArguments :
               Stored(inMemoryCache', a[1], a[2]) # Stored(inMemoryCache, a[1], a[2])
                  => /\ s.op \in {"setItem", "removeItem"}
                     /\ s.key = a[1]
                     /\ section(s.key, s.type) = section(a[1], a[2])

AnyCall(s) == Recognized(s.key, s.type)
InMemoryCall(s) == Recognized(s.key, s.type) /\ s.inMemory

\* C19 as stated: after setItem(key, value, type) with a recognized entry
\* type getItem(key, type) returns the value until the key is removed or
\* overwritten; removeItem(key, type) returns true exactly when the key was
\* present, and getItem returns absent afterwards.
C19_AsStated == [][RoundTrip(AnyCall)]_vars

\* C19 amended: the same for calls made with the inMemory flag set; without
\* the flag setItem stores nothing, getItem returns an empty object and
\* removeItem returns false.
C19_RoundTripInMemory ==
    [][/\ RoundTrip(InMemoryCall)
       /\ (StorageStep /\ ~storageCall'.inMemory)
             => /\ inMemoryCache' = inMemoryCache
                /\ storageCall'.op = "getItem" => storageCall'.returned = EmptyObject
                /\ storageCall'.op = "removeItem" => storageCall'.returned = "false"]_vars

\* an item is read back, under the key it was set with, while other items
\* are in the store
C19_Witness ==
    /\ storageCall.op = "getItem"
    /\ storageCall.inMemory
    /\ storageCall.key = "acct1"
    /\ storageCall.type = ACCOUNT
    /\ storageCall.returned = "e2"
    /\ Stored(inMemoryCache, "acct1", APP_META_DATA) = "e1"
    /\ Stored(inMemoryCache, "h1-accesstoken", CREDENTIAL) # Null

\* a key that was present has been removed
C19_WitnessRemoved ==
    /\ storageCall.op = "removeItem"
    /\ storageCall.inMemory
    /\ storageCall.returned = "true"
    /\ Stored(inMemoryCache, storageCall.key, storageCall.type) = Null

\* C20 as stated: after clear on the in-memory cache no account entry and no
\* app-metadata entry that was stored before is left.
C20_AsStated ==
    (storageCall.op = "clear" /\ storageCall.inMemory)
    => \A a \in StorageArguments :
          a[2] \in {ACCOUNT, APP_META_DATA}
             => /\ Stored(inMemoryCache, a[1], a[2]) = Null
                /\ getItem(inMemoryCache, a[1], a[2], TRUE) = Null


\* the call of p looks its token up in this step
LooksUp(p) == ~calls[p].looked /\ calls'[p].looked /\ calls'[p].op = "getValidToken"

\* the refresh request of q is in flight
RefreshInFlight(q) == calls[q].pc = "gvt_token" /\ calls[q].op = "getValidToken"

\* C21: the cache gives no at-most-once-per-key guarantee: a getValidToken
\* call that finds its entry due for renewal (or is forced) while the refresh
\* request of another call for the same entry is in flight reads the same
\* refresh token and sends a refresh request of its own.
C21_NoAtMostOnce ==
    [][\A p \in Procs, q \in Procs :
          (/\ p # q
           /\ RefreshInFlight(q)
           /\ LooksUp(p)
           /\ RefreshDue(calls'[p])
           /\ MatchingEntries(calls'[p]) = MatchingEntries(calls[q]))
          => /\ calls'[p].pc = "gvt_token"
             /\ calls'[p].token = 1
             /\ calls'[p].sentRefreshToken = calls[q].sentRefreshToken
             /\ calls'[q] = calls[q]]_vars

C21_Witness ==
    /\ \A p \in Procs :
          /\ calls[p].pc = "gvt_token"
          /\ RefreshDue(calls[p])
          /\ calls[p].token = 1
    /\ calls[1].sentRefreshToken = calls[2].sentRefreshToken
    /\ calls[1].sentRefreshToken # 0
    /\ MatchingEntries(calls[1]) = MatchingEntries(calls[2])
    /\ calls[1].req.forceRefresh
    /\ ~calls[2].req.forceRefresh


\* the state value the catch block of the call hands to resetTempCacheItems
CleanupState(c) == IF c.op = "acquireToken" THEN CatchState(c.req) ELSE ""

\* the step in which the catch block of the call of p runs
CleanupStep(p) ==
    /\ calls[p].pc # "done"
    /\ calls'[p].pc = "done"
    /\ calls'[p].cleaned

CancelStep(p) == calls[p].pc = "idle" /\ calls'[p].op = "cancelRequest"

\* there is nothing for a reset with this state value to remove
NothingToClean(t, state) ==
    /\ ~t.params.present
    /\ t.state = ""
    /\ IF state = "" THEN t.authorities = {}
       ELSE \A a \in t.authorities : a.state # state

\* C22 as stated: the cleanup (reset of the temporary request state and
\* current account absent), run by the catch blocks and by cancelRequest, is
\* idempotent and safe on an empty state: run where there is nothing to clean
\* it raises no error and changes nothing, and run a second time right after
\* the first it leaves the state as the first run left it.
C22_AsStated ==
    [][\A p \in Procs :
          /\ CleanupStep(p) =>
                LET state == CleanupState(calls'[p])
                IN /\ account' = NoAccount
                   /\ resetTempCacheItems(temp', state) = temp'
                   /\ calls'[p].result.error = calls'[p].raised
                   /\ (NothingToClean(temp, state) /\ account = NoAccount)
                         => (temp' = temp /\ account' = account)
          /\ CancelStep(p) =>
                /\ calls'[p].result.kind = "ok"
                /\ account' = NoAccount
                /\ cancelRequest(temp') = temp'
                /\ (NothingToClean(temp, temp.state) /\ account = NoAccount)
                      => (temp' = temp /\ account' = account)]_vars

\* C22: the cleanup of the catch blocks (reset of the temporary request state
\* and current account absent) is idempotent and safe on an empty state: run
\* where there is nothing to clean it raises no error of its own and changes
\* nothing, and run a second time right after the first it leaves the state
\* as the first run left it. cancelRequest does the reset only and leaves the
\* current account as it is; it removes the stored request, the stored state
\* value and the authority stored for that state value (every stored
\* authority when no state value is stored), changes nothing where nothing is
\* stored, and a second cancelRequest changes something exactly when the
\* authority of a request with another state value is still stored, which
\* the second call removes.
C22_CleanupIdempotent ==
    [][\A p \in Procs :
          /\ CleanupStep(p) =>
                LET state == CleanupState(calls'[p])
                IN /\ account' = NoAccount
                   /\ NothingToClean(temp', state)
                   /\ resetTempCacheItems(temp', state) = temp'
                   /\ calls'[p].result.error = calls'[p].raised
                   /\ (NothingToClean(temp, state) /\ account = NoAccount)
                         => (temp' = temp /\ account' = account)
          /\ CancelStep(p) =>
                /\ calls'[p].result.kind = "ok"
                /\ account' = account
                /\ ~temp'.params.present
                /\ temp'.state = ""
                /\ temp'.authorities \subseteq temp.authorities
                /\ \A a \in temp.authorities :
                      a \in temp'.authorities
                         <=> (temp.state # "" /\ a.state # temp.state)
                /\ NothingToClean(temp, temp.state) => temp' = temp
                /\ (cancelRequest(temp') = temp') <=> (temp'.authorities = {})
                /\ cancelRequest(cancelRequest(temp')) = cancelRequest(temp')]_vars

\* cancelRequest has run with two authorization requests outstanding: the
\* authority of the other request is still stored, and a second cancelRequest
\* would remove it
C22_WitnessTwoOutstanding ==
    \E p \in Procs :
        LET c == calls[p]
        IN /\ c.op = "cancelRequest"
           /\ c.pc = "done"
           /\ c.req.userRequestState = "s2"
           /\ ~temp.params.present
           /\ temp.state = ""
           /\ \E a \in temp.authorities : a.state = "s1"
           /\ cancelRequest(temp) # temp

\* cancelRequest has run where nothing was stored
C22_Witness ==
    \E p \in Procs :
        LET c == calls[p]
        IN /\ c.op = "cancelRequest"
           /\ c.pc = "done"
           /\ c.result.kind = "ok"
           /\ c.req.userRequestState = ""
           /\ temp = EmptyTemp

\* cancelRequest has removed a stored request and left the account in place
C22_WitnessCancelled ==
    \E p \in Procs :
        LET c == calls[p]
        IN /\ c.op = "cancelRequest"
           /\ c.pc = "done"
           /\ c.req.userRequestState = "s1"
           /\ temp = EmptyTemp
           /\ account # NoAccount

\* a catch block has run where nothing was stored and no account was set
C22_WitnessCatch ==
    \E p \in Procs :
        LET c == calls[p]
        IN /\ c.op = "getValidToken"
           /\ c.pc = "done"
           /\ c.cleaned
           /\ temp = EmptyTemp
           /\ account = NoAccount
           /\ persisted.idToken = ""


\* an authorization request begun with this state value has not been answered
Outstanding(t, state) == \E a \in t.authorities : a.state = state

\* the call of p reads a stored request in this step
RetrievesRequest(p) ==
    /\ calls[p].pc = "idle"
    /\ calls'[p].op = "acquireToken"
    /\ calls'[p].readRequest
    /\ calls'[p].raised = ""

\* C23 as stated: with two authorization requests outstanding, acquireToken
\* given the code response of one of them retrieves the request stored for
\* that response's state value, never the request stored for the other one.
C23_AsStated ==
    [][\A p \in Procs :
          (/\ RetrievesRequest(p)
           /\ \A st \in States : Outstanding(temp, st))
          => calls'[p].tokenResource = ResourceOf(calls'[p].req.userRequestState)]_vars


\* the call of p ends in this step with the result of a token exchange
ExchangeSucceeds(p) ==
    /\ Finishes(p, "acquireToken") \/ Finishes(p, "getValidToken")
    /\ calls'[p].result.kind = "ok"
    /\ ~calls'[p].result.fromCache

\* the call has ended with the result of a token exchange
ExchangeDone(c) ==
    /\ c.op \in {"acquireToken", "getValidToken"}
    /\ c.pc = "done"
    /\ c.result.kind = "ok"
    /\ ~c.result.fromCache

\* getAccount is called by q right after the token exchange of p has ended
GetAccountFollows(p, q) ==
    /\ q # p
    /\ ExchangeDone(calls[p])
    /\ account = calls[p].result.account
    /\ calls[q].pc = "idle"
    /\ calls'[q].op = "getAccount"

\* C24 as stated: after every successful token exchange (a code exchange of
\* acquireToken, a refresh of getValidToken) the current account of the
\* instance is the account of the token response returned to the caller, and
\* a getAccount that follows returns that account.
C24_AsStated ==
    [][\A p \in Procs :
          /\ ExchangeSucceeds(p) => account' = calls'[p].result.account
          /\ \A q \in Procs :
                GetAccountFollows(p, q)
                   => calls'[q].result.account = calls[p].result.account]_vars

\* C24: after every successful token exchange the current account of the
\* instance is the account of the token response returned to the caller,
\* absent when the response carries none. A getAccount that follows returns
\* the account of the response when it carries one; when it carries none,
\* getAccount returns the account derived from the persisted id token and
\* client info, and absent when one of the two is missing.
C24_AccountOfResponse ==
    [][\A p \in Procs :
          /\ ExchangeSucceeds(p) => account' = calls'[p].result.account
          /\ \A q \in Procs :
                GetAccountFollows(p, q)
                   => IF calls[p].result.account # NoAccount
                      THEN /\ calls'[q].result.account = calls[p].result.account
                           /\ account' = calls[p].result.account
                      ELSE IF persisted.idToken # "" /\ persisted.clientInfo # ""
                      THEN /\ calls'[q].result.account =
                                 createAccount(persisted.idToken, persisted.clientInfo)
                           /\ calls'[q].result.account # NoAccount
                           /\ account' = calls'[q].result.account
                      ELSE /\ calls'[q].result.account = NoAccount
                           /\ account' = NoAccount]_vars

\* a token exchange has returned a response without an account, and the
\* getAccount that followed has returned the account of the persisted items
C24_WitnessNoAccount ==
    /\ ExchangeDone(calls[1])
    /\ calls[1].result.account = NoAccount
    /\ calls[2].op = "getAccount"
    /\ calls[2].pc = "done"
    /\ calls[2].storeReads = 2
    /\ calls[2].result.account = "h1"
    /\ account = "h1"

\* a refresh has returned the tokens of an account
C24_Witness ==
    \E p \in Procs :
        LET c == calls[p]
        IN /\ c.op = "getValidToken"
           /\ c.pc = "done"
           /\ c.token = 1
           /\ c.result.kind = "ok"
           /\ ~c.result.fromCache
           /\ c.result.account = "h1"
           /\ account = "h1"

\* a code exchange has returned another account than the one persisted before
C24_WitnessCodeExchange ==
    \E p \in Procs :
        LET c == calls[p]
        IN /\ c.op = "acquireToken"
           /\ c.pc = "done"
           /\ c.result.kind = "ok"
           /\ c.result.account = "h2"
           /\ account = "h2"


\* the step in which the node call of p begins
NodeStarts(p) == nodeCalls[p].pc = "idle" /\ nodeCalls'[p].pc # "idle"

\* C25: in the node client application every call without a request
\* authority uses the one default authority instance (the configured
\* authority, else the common authority), created once and reused; a call
\* that begins after the discovery of that instance has completed performs no
\* discovery; a failed discovery ends the call with the
\* endpoint-discovery-incomplete error before any client request is made.
C25_DefaultAuthorityReused ==
    [][/\ nodeApp'.created <= 1
       /\ nodeApp.created = 1 => nodeApp'.url = nodeApp.url
       /\ nodeApp.discovered => nodeApp'.discovered
       /\ \A p \in Procs :
             LET c == nodeCalls'[p]
             IN /\ (c.pc # "idle" /\ c.authority = "") =>
                      /\ c.instance = 1
                      /\ nodeApp'.created = 1
                      /\ c.url = nodeApp'.url
                      /\ c.url = IF nodeApp'.configAuthority # ""
                                 THEN nodeApp'.configAuthority
                                 ELSE DEFAULT_AUTHORITY
                /\ (NodeStarts(p) /\ c.authority = "" /\ nodeApp.discovered) =>
                      /\ c.discoveries = 0
                      /\ c.pc = "running"
                /\ (nodeCalls[p].pc = "running" /\ c.pc # "running") =>
                      /\ c.pc = "client"
                      /\ c.discoveries = nodeCalls[p].discoveries
                /\ (nodeCalls[p].pc = "disc" /\ c.pc = "done") =>
                      /\ c.error = "EndpointDiscoveryIncomplete"
                      /\ ~c.clientRequest
                /\ c.clientRequest =>
                      (c.discoveries = 1 \/ (c.authority = "" /\ c.completeAtStart))]_vars

\* a call without a request authority that began after the discovery of the
\* default instance: handed to the client with no discovery of its own
C25_Witness ==
    \E p \in Procs :
        LET c == nodeCalls[p]
        IN /\ c.op = "acquireTokenByCode"
           /\ c.authority = ""
           /\ c.completeAtStart
           /\ c.discoveries = 0
           /\ c.clientRequest
           /\ c.url = DEFAULT_AUTHORITY
           /\ nodeApp.created = 1

\* a failed discovery of the default instance
C25_WitnessFailed ==
    \E p \in Procs :
        LET c == nodeCalls[p]
        IN /\ c.pc = "done"
           /\ c.authority = ""
           /\ c.error = "EndpointDiscoveryIncomplete"
           /\ ~c.clientRequest
           /\ c.url = "authA"


\* the discovery of the logout of p fails in this step
LogoutDiscoveryFails(p) ==
    /\ calls[p].pc = "lo_disc"
    /\ calls'[p].pc = "done"
    /\ calls'[p].result.kind # "ok"

SignedOut(acc, store, t) ==
    /\ acc = NoAccount
    /\ store = [idToken |-> "", clientInfo |-> ""]
    /\ TempCleared(t)

\* C26: logout signs out locally (access tokens removed, cache cleared,
\* account absent) before it resolves the authority: when the discovery then
\* fails, logout fails with the endpoint-discovery-incomplete error and
\* returns no logout URL, and the local sign-out stays in effect.
C26_SignOutBeforeDiscovery ==
    [][\A p \in Procs :
          /\ (LogoutStep(p) /\ calls'[p].pc = "lo_disc")
                => /\ SignedOut(account', persisted', temp')
                   /\ cache' = {}
                   /\ calls'[p].result.kind = "none"
          /\ LogoutDiscoveryFails(p)
                => /\ calls'[p].result.kind = "error"
                   /\ calls'[p].result.error = "EndpointDiscoveryIncomplete"
                   /\ SignedOut(account', persisted', temp')
                   /\ cache' = {}]_vars

\* a logout that removed tokens of the signed-in account has failed in its
\* discovery
C26_Witness ==
    \E p \in Procs :
        LET c == calls[p]
        IN /\ c.op = "logout"
           /\ c.pc = "done"
           /\ c.result.error = "EndpointDiscoveryIncomplete"
           /\ c.account = "h1"
           /\ LoggedOutEntries(atLogout) # {}
           /\ cache = {}
           /\ account = NoAccount


\* the call of p takes the refresh path in this step (line 260 onwards)
RefreshPathStep(p) ==
    /\ ~calls[p].looked
    /\ calls'[p].looked
    /\ calls'[p].op = "getValidToken"
    /\ calls'[p].item # NoItem
    /\ ~calls'[p].result.fromCache

\* C27: a getValidToken call answered from the cache changes nothing in the
\* credential cache, the persisted items or the temporary request state, and
\* leaves the request object as the caller passed it; the refresh path, and
\* only it, overwrites the request's authority with the authority of the
\* cached entry.
C27_CacheAnswerChangesNothing ==
    [][\A p \in Procs :
          /\ CacheAnswerStep(p)
                => /\ cache' = cache
                   /\ persisted' = persisted
                   /\ temp' = temp
                   /\ issued' = issued
                   /\ calls'[p].req = calls'[p].passed
          /\ RefreshPathStep(p)
                => /\ calls'[p].req.authority = calls'[p].item.authority
                   /\ cache' = cache
          /\ (calls'[p].op = "getValidToken" /\ calls'[p].req # calls'[p].passed)
                => /\ calls'[p].looked
                   /\ calls'[p].item # NoItem
                   /\ ~calls'[p].result.fromCache
                   /\ calls'[p].req = [calls'[p].passed EXCEPT
                                          !.authority = calls'[p].item.authority]]_vars

\* a call without an authority answered from the cache while a request of an
\* earlier authorization is still stored
C27_Witness ==
    \E p \in Procs :
        LET c == calls[p]
        IN /\ c.op = "getValidToken"
           /\ c.pc = "done"
           /\ c.result.fromCache
           /\ c.passed.authority = ""
           /\ c.req.authority = ""
           /\ c.item \in cache
           /\ Cardinality(cache) = 2
           /\ temp = LeftoverTemp

\* the refresh path has overwritten the authority of a request that named none
C27_WitnessRefresh ==
    \E p \in Procs :
        LET c == calls[p]
        IN /\ c.op = "getValidToken"
           /\ c.pc = "gvt_token"
           /\ c.passed.authority = ""
           /\ c.req.authority = DefaultAuthority


\* the call has ended with a response built from the cache
AnsweredFromCache(c) ==
    /\ c.op = "getValidToken"
    /\ c.pc = "done"
    /\ c.result.kind = "ok"
    /\ c.result.fromCache

\* C28: every token response getValidToken builds from the cache comes from
\* an entry with the request's client id, resolved authority, resource and
\* the home account identifier of the resolved account, whose scopes contain
\* the requested scopes, and carries that entry's absolute expiry, which is
\* strictly later than now + tokenRenewalOffsetSeconds: an entry that is
\* expired or belongs to another account is never returned from the cache.
C28_CacheAnswerMatches ==
    \A p \in Procs :
        LET c == calls[p]
        IN AnsweredFromCache(c) =>
              /\ c.item \in c.seen
              /\ c.item.clientId = clientId
              /\ c.item.authority = c.authority
              /\ c.item.resource = c.req.resource
              /\ c.item.homeAccountIdentifier = c.account
              /\ c.result.account = c.account
              /\ RequestedScopes(c) \subseteq EntryScopes(c.item)
              /\ c.result.scopes = EntryScopes(c.item)
              /\ c.result.accessToken = c.item.accessToken
              /\ c.result.expiresOn = c.item.expiresOnSec * 1000
              /\ c.item.expiresOnSec > c.seenNow + tokenRenewalOffsetSeconds
              /\ ~c.req.forceRefresh

\* the cache holds an entry of h1 and an entry of h2 that both cover the
\* requested scopes; the request for h1 is answered with the entry of h1,
\* which expires one second after the renewal bound
C28_Witness ==
    \E p \in Procs :
        LET c == calls[p]
        IN /\ AnsweredFromCache(c)
           /\ c.account = "h1"
           /\ c.item.expiresOnSec = c.seenNow + tokenRenewalOffsetSeconds + 1
           /\ \E e \in c.seen :
                 /\ e.homeAccountIdentifier = "h2"
                 /\ e.authority = c.authority
                 /\ RequestedScopes(c) \subseteq EntryScopes(e)


\* the call of p has failed and its catch block has run
FailedWithReset(c) ==
    /\ c.op \in {"acquireToken", "getValidToken"}
    /\ c.pc = "done"
    /\ c.cleaned

BothPersisted(store) == store.idToken # "" /\ store.clientInfo # ""

\* C29: the account reset of a failed acquireToken or getValidToken clears
\* the account cached on the instance and leaves the persisted id token and
\* client info: the next getAccount derives the account from them again when
\* both are present, and returns absent only when one of them is missing.
C29_ResetKeepsPersisted ==
    [][\A p \in Procs :
          /\ CleanupStep(p)
                => /\ account' = NoAccount
                   /\ persisted' = persisted
          /\ \A q \in Procs :
                (/\ q # p
                 /\ FailedWithReset(calls[p])
                 /\ account = NoAccount
                 /\ calls[q].pc = "idle"
                 /\ calls'[q].op = "getAccount")
                => IF BothPersisted(persisted)
                   THEN /\ calls'[q].result.account =
                              createAccount(persisted.idToken, persisted.clientInfo)
                        /\ calls'[q].result.account # NoAccount
                        /\ account' = calls'[q].result.account
                        /\ calls'[q].storeReads = 2
                   ELSE /\ calls'[q].result.account = NoAccount
                        /\ account' = NoAccount]_vars

\* a silent request of a signed-in user has failed; the getAccount that
\* follows returns the account derived from the persisted items
C29_Witness ==
    /\ FailedWithReset(calls[1])
    /\ calls[1].op = "getValidToken"
    /\ calls[1].account = "h1"
    /\ calls[2].op = "getAccount"
    /\ calls[2].pc = "done"
    /\ calls[2].storeReads = 2
    /\ calls[2].result.account = "h1"
    /\ BothPersisted(persisted)

\* after a failed code exchange with only the client info persisted
\* getAccount returns absent
C29_WitnessAbsent ==
    /\ FailedWithReset(calls[1])
    /\ calls[1].op = "acquireToken"
    /\ calls[2].op = "getAccount"
    /\ calls[2].pc = "done"
    /\ calls[2].result.account = NoAccount
    /\ persisted.clientInfo # ""


\* the last operation was a setItem that stored an entry
StoresEntry(s) ==
    /\ s.op = "setItem"
    /\ s.inMemory
    /\ section(s.key, s.type) # "none"

\* the last operation was a removeItem that removed an entry
RemovesEntry(s) == s.op = "removeItem" /\ s.returned = "true"

\* C30 as stated: every registered change emitter is invoked by an operation
\* that changes the in-memory cache (setCache, a setItem that stores an
\* entry, a removeItem that removes one), and no emitter is invoked by a
\* setItem or removeItem that is rejected or changes nothing.
C30_AsStated ==
    LET s == storageCall
    IN /\ (s.op = "setCache" \/ StoresEntry(s) \/ RemovesEntry(s))
             => \A i \in DOMAIN changeEmitters : changeEmitters[i] >= 1
       /\ (s.op \in {"setItem", "removeItem"} /\ ~StoresEntry(s) /\ ~RemovesEntry(s))
             => \A i \in DOMAIN changeEmitters : changeEmitters[i] = 0


\* the step in which caller p calls getAllAccounts or removeAccount
AccountsStep(p) ==
    /\ nodeCalls[p].pc = "idle"
    /\ nodeCalls'[p].op \in {"getAllAccounts", "removeAccount"}

\* the step in which an initializeCacheInterface of caller p ends
InitializeEnds(p) ==
    /\ nodeCalls'[p].op = "initializeCacheInterface"
    /\ nodeCalls[p].pc # "done"
    /\ nodeCalls'[p].pc = "done"

\* C31: in the node client application getAllAccounts and removeAccount work
\* only after an initializeCacheInterface has completed successfully. The
\* cache interface is assigned by a successful initializeCacheInterface and
\* by nothing else (not by a failed one, not by another operation that
\* completes the discovery), and it stays assigned. While it is unset a call
\* of getAllAccounts or removeAccount fails with a TypeError, returns nothing
\* (no empty account list) and leaves the store alone; once it is set
\* getAllAccounts returns the accounts of the store and removeAccount removes
\* the account.
C31_AccountsNeedCacheInterface ==
    [][/\ nodeApp.cacheInterface => nodeApp'.cacheInterface
       /\ (~nodeApp.cacheInterface /\ nodeApp'.cacheInterface) =>
             \E p \in Procs : InitializeEnds(p) /\ nodeCalls'[p].error = ""
       /\ \A p \in Procs :
             /\ InitializeEnds(p) =>
                   IF nodeCalls'[p].error = ""
                   THEN nodeApp'.cacheInterface /\ nodeApp'.discovered
                   ELSE /\ nodeCalls'[p].error = "EndpointDiscoveryIncomplete"
                        /\ nodeApp'.cacheInterface = nodeApp.cacheInterface
             /\ AccountsStep(p) =>
                   LET c == nodeCalls'[p]
                   IN IF nodeApp.cacheInterface
                      THEN /\ c.error = ""
                           /\ c.returned
                           /\ c.op = "getAllAccounts" =>
                                 /\ c.accounts = DOMAIN inMemoryCache.accounts
                                 /\ inMemoryCache' = inMemoryCache
                           /\ c.op = "removeAccount" =>
                                 DOMAIN inMemoryCache'.accounts \subseteq
                                     DOMAIN inMemoryCache.accounts
                      ELSE /\ c.error = "TypeError"
                           /\ ~c.returned
                           /\ c.accounts = {}
                           /\ inMemoryCache' = inMemoryCache]_vars

\* initializeCacheInterface has failed on a discovery error for one caller,
\* and the other caller's getAllAccounts has failed on the empty store
C31_Witness ==
    /\ ~nodeApp.cacheInterface
    /\ DOMAIN inMemoryCache.accounts = {}
    /\ nodeCalls[1].op = "initializeCacheInterface"
    /\ nodeCalls[1].pc = "done"
    /\ nodeCalls[1].error = "EndpointDiscoveryIncomplete"
    /\ nodeCalls[2].op = "getAllAccounts"
    /\ nodeCalls[2].pc = "done"
    /\ nodeCalls[2].error = "TypeError"
    /\ ~nodeCalls[2].returned

\* initializeCacheInterface never called, the discovery completed by a token
\* request, an account in the store: removeAccount fails and removes nothing
C31_WitnessNeverCalled ==
    /\ ~nodeApp.cacheInterface
    /\ nodeApp.discovered
    /\ "acct1" \in DOMAIN inMemoryCache.accounts
    /\ nodeCalls[2].op = "removeAccount"
    /\ nodeCalls[2].error = "TypeError"

\* after a successful initializeCacheInterface the accounts are listed
C31_WitnessInitialised ==
    /\ nodeApp.cacheInterface
    /\ nodeCalls[1].op = "initializeCacheInterface"
    /\ nodeCalls[1].pc = "done"
    /\ nodeCalls[1].error = ""
    /\ nodeCalls[2].op = "getAllAccounts"
    /\ nodeCalls[2].returned
    /\ nodeCalls[2].accounts = {"acct1"}

\* after a successful initializeCacheInterface an account has been removed
C31_WitnessRemoved ==
    /\ nodeApp.cacheInterface
    /\ nodeCalls[2].op = "removeAccount"
    /\ nodeCalls[2].returned
    /\ DOMAIN inMemoryCache.accounts = {}
    /\ Len(changeEmitters) = 0
    /\ storageCall.op = "setItem"


\* an initializeCacheInterface that began with the default authority already
\* discovered has not yet reached its assignment: getAllAccounts, called by
\* the other caller meanwhile, fails although an account is in the store
C31_WitnessAwaiting ==
    /\ nodeCalls[1].op = "initializeCacheInterface"
    /\ nodeCalls[1].pc = "running"
    /\ nodeCalls[1].completeAtStart
    /\ nodeApp.discovered
    /\ ~nodeApp.cacheInterface
    /\ "acct1" \in DOMAIN inMemoryCache.accounts
    /\ nodeCalls[2].op = "getAllAccounts"
    /\ nodeCalls[2].error = "TypeError"

====
